---- MODULE Spec2Model ----
(***************************************************************************)
(* A model of tube_recap's yt_summary.py: the YouTubeSummaryTool batch     *)
(* pipeline (index file, transcript sources with fallback, summary         *)
(* generation, per-item status) as a state machine.                        *)
(*                                                                         *)
(* Text is a sequence of one-character strings.  Seconds are fixed-point   *)
(* numbers in units of 1/1000 s.  A Python dict is a sequence of records   *)
(* in insertion order with unique keys.                                    *)
(***************************************************************************)
EXTENDS Integers, Sequences, FiniteSets, TLC

\* ------------------------------------------------------------------ bounds
MaxVideos == 2      \* length of the input video list
MaxRuns == 2        \* process starts (a restart after a crash is a start)
MaxItems == 2       \* iterations of the loop of run, over all starts
MaxFaults == 2      \* index-save exceptions plus crashes in one behaviour
ChunkChars == 3     \* args.chunk_chars of the modelled runs
ChunkOverlap == 0   \* args.chunk_overlap of the modelled runs
RequestInterval == 2 \* self.request_interval = 1.0 / args.rps, in ticks
MaxRequests == 3    \* requests made through one limiter
MaxTime == 4        \* ticks the clock advances between requests

\* --------------------------------------------------------------- constants
None == "None"

Ids == {"v1", "v2"}
Terminal == {"TRANSCRIPT_UNAVAILABLE", "SUMMARY_FAILED", "ERROR", "COMPLETED"}

\* ------------------------------------------------------------ sequences
Range(s) == {s[k] : k \in 1..Len(s)}

Prefix(s, n) == SubSeq(s, 1, n)

RECURSIVE Flatten(_)
Flatten(ss) == IF ss = <<>> THEN <<>> ELSE Head(ss) \o Flatten(Tail(ss))

\* sep.join(parts)
RECURSIVE Join(_, _)
Join(parts, sep) ==
    IF parts = <<>> THEN <<>>
    ELSE IF Len(parts) = 1 THEN parts[1]
    ELSE parts[1] \o sep \o Join(Tail(parts), sep)

\* needle in hay (substring test)
Contains(hay, needle) ==
    \E k \in 0..(Len(hay) - Len(needle)) :
        SubSeq(hay, k + 1, k + Len(needle)) = needle

IsSpace(c) == c \in {" ", "\n", "\r"}

\* str.strip()
RECURSIVE LStrip(_)
LStrip(s) == IF s # <<>> /\ IsSpace(Head(s)) THEN LStrip(Tail(s)) ELSE s

RECURSIVE RStrip(_)
RStrip(s) ==
    IF s # <<>> /\ IsSpace(s[Len(s)]) THEN RStrip(Prefix(s, Len(s) - 1)) ELSE s

Strip(s) == RStrip(LStrip(s))

\* re.sub(r'\[.*?\]', '', text): leftmost, non-greedy, '.' does not match a
\* newline, so a '[' is removed up to the first ']' after it when no newline
\* lies between them
RECURSIVE StripBrackets(_)
StripBrackets(s) ==
    IF s = <<>> THEN <<>>
    ELSE IF Head(s) = "["
              /\ \E j \in 2..Len(s) : s[j] = "]"
         THEN LET j == CHOOSE j \in 2..Len(s) :
                           s[j] = "]" /\ \A k \in 2..(j - 1) : s[k] # "]"
              IN  IF \E k \in 2..(j - 1) : s[k] = "\n"
                  THEN <<Head(s)>> \o StripBrackets(Tail(s))
                  ELSE StripBrackets(SubSeq(s, j + 1, Len(s)))
         ELSE <<Head(s)>> \o StripBrackets(Tail(s))

\* the tag-cleaning transform of one segment text
CleanTags(text) == Strip(StripBrackets(text))

\* ------------------------------------------------------------ VideoInfo
\* VideoInfo with another default for summary_status
VideoInfoNew(id) ==
    [video_id |-> id, title |-> <<>>, url |-> "", published_at |-> "",
     language |-> "", transcript_chars |-> 0, tokens_estimate |-> 0,
     summary_status |-> "NEW", error |-> ""]

VideoInfo(id) ==
    [video_id |-> id, title |-> <<>>, url |-> "", published_at |-> "",
     language |-> "", transcript_chars |-> 0, tokens_estimate |-> 0,
     summary_status |-> "PENDING", error |-> ""]

\* the dict index_data: a sequence of VideoInfo with unique video_id
HasKey(index, id) == \E k \in 1..Len(index) : index[k].video_id = id

KeyPos(index, id) == CHOOSE k \in 1..Len(index) : index[k].video_id = id

Lookup(index, id) == index[KeyPos(index, id)]

\* SetItem on a list of records instead of a dict: every assignment appends
SetItemAppends(index, id, info) == Append(index, info)

\* index[id] = info
SetItem(index, id, info) ==
    IF HasKey(index, id)
    THEN [index EXCEPT ![KeyPos(index, id)] = info]
    ELSE Append(index, info)


\* ------------------------------------------------------------ index file
MaxCount == 40      \* largest integer an index row is parsed back to

\* every count written as one digit
FormatLastDigit(n) == ToString(n % 10)

\* str(n), as csv.DictWriter writes an int
FormatInt(n) == ToString(n)

\* int(s)
ParseInt(s) == CHOOSE n \in 0..MaxCount : ToString(n) = s

\* a text field as csv.DictWriter writes it: None becomes the empty string
\* (only summary_status and error, the columns after the counts, can be
\* None in a record that was loaded)
CsvField(x) == IF x = None THEN "" ELSE x

\* RowOf with the error column left out of the dictionary given to writerow
RowOfNoError(info) ==
    [video_id |-> info.video_id, title |-> info.title, url |-> info.url,
     published_at |-> info.published_at, lang |-> info.language,
     transcript_chars |-> FormatInt(info.transcript_chars),
     tokens_estimate |-> FormatInt(info.tokens_estimate),
     summary_status |-> CsvField(info.summary_status), error |-> ""]

\* the row _save_index writes for one VideoInfo
RowOf(info) ==
    [video_id |-> info.video_id, title |-> info.title, url |-> info.url,
     published_at |-> info.published_at, lang |-> info.language,
     transcript_chars |-> FormatInt(info.transcript_chars),
     tokens_estimate |-> FormatInt(info.tokens_estimate),
     summary_status |-> CsvField(info.summary_status),
     error |-> CsvField(info.error)]

\* the rows of all records but the first
SaveRowsAfterFirst(index) ==
    [k \in 1..(Len(index) - 1) |-> RowOf(index[k + 1])]

\* the rows _save_index writes: one per value of index_data, in dict order
SaveRows(index) == [k \in 1..Len(index) |-> RowOf(index[k])]

\* data.get(key, default)
Get(data, key, default) == IF key \in DOMAIN data THEN data[key] ELSE default

\* int(row.get(key, 0))
IntField(row, key) == IF key \in DOMAIN row THEN ParseInt(row[key]) ELSE 0

\* the VideoInfo _load_index builds from one row
InfoOf(row) ==
    [video_id |-> row.video_id, title |-> Get(row, "title", <<>>),
     url |-> Get(row, "url", ""),
     published_at |-> Get(row, "published_at", ""),
     language |-> Get(row, "lang", ""),
     transcript_chars |-> IntField(row, "transcript_chars"),
     tokens_estimate |-> IntField(row, "tokens_estimate"),
     summary_status |-> Get(row, "summary_status", "PENDING"),
     error |-> Get(row, "error", "")]

\* can int(s) be computed
IsIntText(s) == \E n \in 0..MaxCount : ToString(n) = s

\* what int(row.get(key, 0)) raises: TypeError for the None of a row shorter
\* than the header, ValueError for text that is no number
IntError(row, key) ==
    IF key \notin DOMAIN row THEN ""
    ELSE IF row[key] = None THEN "TypeError"
    ELSE IF IsIntText(row[key]) THEN ""
    ELSE "ValueError"

\* what the construction of the VideoInfo of one row raises, if anything
RowError(row) ==
    IF "video_id" \notin DOMAIN row THEN "KeyError"
    ELSE IF IntError(row, "transcript_chars") # ""
         THEN IntError(row, "transcript_chars")
    ELSE IntError(row, "tokens_estimate")

\* what _load_index raises on the rows of a file: the error of the first
\* row that has one
RECURSIVE LoadError(_)
LoadError(rows) ==
    IF rows = <<>> THEN ""
    ELSE IF RowError(Head(rows)) # "" THEN RowError(Head(rows))
    ELSE LoadError(Tail(rows))

\* _load_index: index[row['video_id']] = video_info, row after row
RECURSIVE LoadRows(_, _)
LoadRows(rows, index) ==
    IF rows = <<>> THEN index
    ELSE LoadRows(Tail(rows),
                  SetItem(index, Head(rows).video_id, InfoOf(Head(rows))))

LoadIndex(file) == LoadRows(file, <<>>)

\* what a file holds when a rewrite of it to `rows` is cut short: the file is
\* truncated on open and the rows follow one by one
CutShort(rows) == {Prefix(rows, n) : n \in 0..(Len(rows) - 1)}

\* ------------------------------------------------------- track selection
\* args.languages, split on ','
Languages == <<"ja", "ja-JP", "en">>

TrackLangs == {"ja", "en", "de"}

\* one entry of the transcript list; iteration lists the manually created
\* tracks before the generated ones, one track per language and kind
Tracks == [lang : TrackLangs, generated : BOOLEAN, translatable : BOOLEAN]

MaxTracks == 2      \* tracks in one transcript list

WellListed(ts) ==
    /\ \A j, k \in 1..Len(ts) :
          j < k => /\ ~(ts[j].generated /\ ~ts[k].generated)
                   /\ ~(ts[j].lang = ts[k].lang
                        /\ ts[j].generated = ts[k].generated)

TrackLists ==
    {ts \in UNION {[1..n -> Tracks] : n \in 0..MaxTracks} : WellListed(ts)}

\* transcript_list.find_manually_created_transcript([lang]) /
\* find_generated_transcript([lang]) succeeds
HasTrack(ts, lang, gen) ==
    \E k \in 1..Len(ts) : ts[k].lang = lang /\ ts[k].generated = gen

FindTrack(ts, lang, gen) ==
    ts[CHOOSE k \in 1..Len(ts) : ts[k].lang = lang /\ ts[k].generated = gen]

\* for lang in languages: try find ...; break on the first that succeeds
FirstLangWith(ts, langs, gen) ==
    LET hits == {k \in 1..Len(langs) : HasTrack(ts, langs[k], gen)}
    IN  IF hits = {} THEN 0 ELSE CHOOSE k \in hits : \A j \in hits : k <= j

\* `transcript` while it is None
NoTrack == [found |-> FALSE]

\* SelectTrack with the two loops in the other order: generated tracks first
SelectTrackGeneratedFirst(ts, langs) ==
    LET m == FirstLangWith(ts, langs, FALSE)
        g == FirstLangWith(ts, langs, TRUE)
    IN  IF g # 0
        THEN [found |-> TRUE, track |-> FindTrack(ts, langs[g], TRUE),
              translated |-> FALSE, selected_lang |-> langs[g]]
        ELSE IF m # 0
        THEN [found |-> TRUE, track |-> FindTrack(ts, langs[m], FALSE),
              translated |-> FALSE, selected_lang |-> langs[m]]
        ELSE IF ts # <<>> /\ ts[1].translatable
        THEN [found |-> TRUE, track |-> ts[1],
              translated |-> TRUE, selected_lang |-> "ja (translated)"]
        ELSE NoTrack

\* the track fetch_transcript picks and the language it reports
SelectTrack(ts, langs) ==
    LET m == FirstLangWith(ts, langs, FALSE)
        g == FirstLangWith(ts, langs, TRUE)
    IN  IF m # 0
        THEN [found |-> TRUE, track |-> FindTrack(ts, langs[m], FALSE),
              translated |-> FALSE, selected_lang |-> langs[m]]
        ELSE IF g # 0
        THEN [found |-> TRUE, track |-> FindTrack(ts, langs[g], TRUE),
              translated |-> FALSE, selected_lang |-> langs[g]]
        ELSE IF ts # <<>> /\ ts[1].translatable
        THEN [found |-> TRUE, track |-> ts[1],
              translated |-> TRUE, selected_lang |-> "ja (translated)"]
        ELSE NoTrack

\* ---------------------------------------------------- transcript sources
\* a segment: start and duration in 1/1000 s, text
Seg(start, duration, text) ==
    [start |-> start, duration |-> duration, text |-> text]

\* what transcript.fetch() can return
ApiSegLists ==
    { <<>>,
      <<Seg(0, 1000, <<"[", "m", "]">>), Seg(1000, 500, <<"b", "\r">>)>>,
      <<Seg(0, 2000, <<"a", "b", "c", "d", "e", "f", "g", "h", "i">>)>> }

\* the ways api.list() and transcript.fetch() raise
ApiErrors == {"TranscriptsDisabled", "NoTranscriptFound", "IpBlocked", "Exception"}

\* the loop over the fetched snippets: clean when clean_tags, keep every one
ProcessSegments(segments, clean_tags) ==
    [k \in 1..Len(segments) |->
        Seg(segments[k].start, segments[k].duration,
            IF clean_tags THEN CleanTags(segments[k].text)
                          ELSE segments[k].text)]

TextParts(segments) == [k \in 1..Len(segments) |-> segments[k].text]

\* ' '.join(text_parts)
FullText(segments) == Join(TextParts(segments), <<" ">>)

\* the characters of the language tags and names looked for in the listing
TagChars ==
    ("ja" :> <<"j", "a">>) @@ ("ja-JP" :> <<"j", "a", "-", "J", "P">>)
    @@ ("en" :> <<"e", "n">>) @@ ("de" :> <<"d", "e">>)
    @@ ("fr" :> <<"f", "r">>)

JapaneseChars == <<"J", "a", "p", "a", "n", "e", "s", "e">>
EnglishChars == <<"E", "n", "g", "l", "i", "s", "h">>

\* the language _fetch_transcript_ytdlp downloads, given the listing's
\* stdout: the first preferred tag found in it, else ja, else en, else None
ToolLanguage(stdout, langs) ==
    LET hits == {k \in 1..Len(langs) : Contains(stdout, TagChars[langs[k]])}
    IN  IF hits # {}
        THEN langs[CHOOSE k \in hits : \A j \in hits : k <= j]
        ELSE IF Contains(stdout, TagChars["ja"]) \/ Contains(stdout, JapaneseChars)
        THEN "ja"
        ELSE IF Contains(stdout, TagChars["en"]) \/ Contains(stdout, EnglishChars)
        THEN "en"
        ELSE None

\* one event of a json3 file: a dict that may lack any of its keys
Event(tStartMs, dDurationMs, segs) ==
    [tStartMs |-> tStartMs, dDurationMs |-> dDurationMs, segs |-> segs]

\* event.get(key, 0) / 1000.0, in 1/1000 s
MsField(e, key) == IF key \in DOMAIN e THEN e[key] ELSE 0

\* the json3 branch: events with 'segs' whose joined text is not blank
RECURSIVE DecodeEvents(_, _)
DecodeEvents(events, clean_tags) ==
    IF events = <<>> THEN <<>>
    ELSE LET e == Head(events)
             rest == DecodeEvents(Tail(events), clean_tags)
         IN  IF "segs" \notin DOMAIN e THEN rest
             ELSE LET text == Flatten(e.segs)
                  IN  IF Strip(text) = <<>> THEN rest
                      ELSE <<Seg(MsField(e, "tStartMs"), MsField(e, "dDurationMs"),
                                 IF clean_tags THEN CleanTags(text) ELSE text)>>
                           \o rest

\* one cue of a WebVTT file: the two times of its timestamp line in 1/1000 s
\* and the lines below it, up to the next timestamp line
Cue(start, end, lines) == [start |-> start, end |-> end, lines |-> lines]

\* re.sub(r'<[^>]+>', '', text) and re.sub(r'\{[^}]+\}', '', text): an
\* opening character is removed up to the first closing one after it when
\* at least one character lies between them
RECURSIVE StripMarkup(_, _, _)
StripMarkup(s, open, close) ==
    IF s = <<>> THEN <<>>
    ELSE IF Head(s) = open
              /\ \E j \in 2..Len(s) : s[j] = close
         THEN LET j == CHOOSE j \in 2..Len(s) :
                           s[j] = close /\ \A k \in 2..(j - 1) : s[k] # close
              IN  IF j = 2
                  THEN <<Head(s)>> \o StripMarkup(Tail(s), open, close)
                  ELSE StripMarkup(SubSeq(s, j + 1, Len(s)), open, close)
         ELSE <<Head(s)>> \o StripMarkup(Tail(s), open, close)

\* the text lines collected below a timestamp line: each stripped, up to the
\* first blank one
RECURSIVE TextLines(_)
TextLines(lines) ==
    IF lines = <<>> \/ Strip(Head(lines)) = <<>> THEN <<>>
    ELSE <<Strip(Head(lines))>> \o TextLines(Tail(lines))

\* the .vtt branch: the cues whose text is not empty after the cleaning
RECURSIVE DecodeCues(_, _)
DecodeCues(cues, clean_tags) ==
    IF cues = <<>> THEN <<>>
    ELSE LET c == Head(cues)
             rest == DecodeCues(Tail(cues), clean_tags)
             joined == Join(TextLines(c.lines), <<" ">>)
             plain == StripMarkup(StripMarkup(joined, "<", ">"), "{", "}")
             text == Strip(IF clean_tags THEN CleanTags(plain) ELSE plain)
         IN  IF text = <<>> THEN rest
             ELSE <<Seg(c.start, c.end - c.start, text)>> \o rest

\* the segments parsed from the downloaded file: two branches, and formats
\* no branch parses (.ttml, .srt)
ParseSubtitles(env, clean_tags) ==
    IF env.ext \in {".json3", ".srv3", ".srv2", ".srv1"}
    THEN DecodeEvents(env.events, clean_tags)
    ELSE IF env.ext = ".vtt"
    THEN DecodeCues(env.events, clean_tags)
    ELSE <<>>

\* what the two yt-dlp subprocesses do for one video: the listing (or its
\* timeout), the download (timeout, non-zero exit, no file, or a file)
ToolEnv(listing, download, ext, events) ==
    [listing |-> listing, download |-> download, ext |-> ext, events |-> events]

Listing(stdout) == [timeout |-> FALSE, stdout |-> stdout]
ListingTimeout == [timeout |-> TRUE]

EventsAB ==
    <<Event(0, 1000, <<<<"a">>>>), Event(1000, 500, <<<<"b">>>>)>>
EventsTagged ==
    <<Event(0, 1000, <<<<"[", "x", "]">>>>), [segs |-> <<<<"c">>, <<"d">>>>],
      [tStartMs |-> 500, dDurationMs |-> 500]>>
EventsBlank == <<Event(0, 1000, <<<<" ">>, <<"\n">>>>), [tStartMs |-> 0]>>

ToolEnvs ==
    { ToolEnv(ListingTimeout, "ok", ".json3", EventsAB),
      ToolEnv(Listing(<<"d", "e">>), "ok", ".json3", EventsAB),
      ToolEnv(Listing(<<"j", "a">>), "returncode", ".json3", EventsAB),
      ToolEnv(Listing(<<"j", "a">>), "timeout", ".json3", EventsAB),
      ToolEnv(Listing(<<"j", "a">>), "ok", ".json3", EventsAB) }

\* a result of fetch_transcript / _fetch_transcript_ytdlp: None, or the tuple
NoResult == [ok |-> FALSE]
Result(segments, text, lang) ==
    [ok |-> TRUE, segments |-> segments, text |-> text, lang |-> lang]

\* subprocess.run raised TimeoutExpired, in the listing (timeout=30) or in
\* the download (timeout=60), which runs when a language was selected
TimedOut(env, langs) ==
    \/ env.listing.timeout
    \/ /\ ToolLanguage(env.listing.stdout, langs) # None
       /\ env.download = "timeout"

\* a subprocess that timed out is taken to have delivered the file
ToolOutcomeDespiteTimeout(env, clean_tags, langs) ==
    LET lang == IF env.listing.timeout THEN "ja"
                ELSE ToolLanguage(env.listing.stdout, langs)
    IN  IF lang = None THEN NoResult
        ELSE IF env.download \notin {"ok", "timeout"} THEN NoResult
        ELSE LET segments == ParseSubtitles(env, clean_tags)
             IN  IF segments = <<>> THEN NoResult
                 ELSE Result(segments, FullText(segments), lang)

\* what _fetch_transcript_ytdlp returns, before it writes the two files
ToolOutcome(env, clean_tags, langs) ==
    IF env.listing.timeout THEN NoResult
    ELSE LET lang == ToolLanguage(env.listing.stdout, langs)
         IN  IF lang = None THEN NoResult
             ELSE IF env.download # "ok" THEN NoResult
             ELSE LET segments == ParseSubtitles(env, clean_tags)
                  IN  IF segments = <<>> THEN NoResult
                      ELSE Result(segments, FullText(segments), lang)

\* the subprocess calls _fetch_transcript_ytdlp makes: the listing, and the
\* download when a language was selected
ToolCalls(env, langs) ==
    IF env.listing.timeout \/ ToolLanguage(env.listing.stdout, langs) = None
    THEN <<"subprocess.list">>
    ELSE <<"subprocess.list", "subprocess.download">>

\* ------------------------------------------------------ summary generation
\* the windows follow each other at chunk_size, whatever the overlap
RECURSIVE ChunksFromApart(_, _, _, _)
ChunksFromApart(text, start, chunk_size, overlap) ==
    IF start >= Len(text) THEN <<>>
    ELSE LET end == IF start + chunk_size < Len(text)
                    THEN start + chunk_size ELSE Len(text)
         IN  <<SubSeq(text, start + 1, end)>>
             \o ChunksFromApart(text, start + chunk_size, chunk_size, overlap)

\* _chunk_text: windows of chunk_size characters, each starting
\* chunk_size - overlap after the one before (for overlap < chunk_size)
RECURSIVE ChunksFrom(_, _, _, _)
ChunksFrom(text, start, chunk_size, overlap) ==
    IF start >= Len(text) THEN <<>>
    ELSE LET end == IF start + chunk_size < Len(text)
                    THEN start + chunk_size ELSE Len(text)
         IN  <<SubSeq(text, start + 1, end)>>
             \o ChunksFrom(text, start + chunk_size - overlap, chunk_size, overlap)

\* what one _call_ai returns for a window prompt: None (the provider call
\* failed), an empty string, or a bullet list
ChunkAnswers ==
    {[ok |-> FALSE], [ok |-> TRUE, text |-> <<>>], [ok |-> TRUE, text |-> <<"p">>]}

\* what the final _call_ai returns: None, text that is not JSON, or a JSON
\* object with its summary and its three arrays
JsonAnswer(summary, highlights, new_insights, notable_quotes) ==
    [kind |-> "json", summary |-> summary, highlights |-> highlights,
     new_insights |-> new_insights, notable_quotes |-> notable_quotes]

FinalAnswers ==
    { [kind |-> None], [kind |-> "not json"],
      JsonAnswer("s", <<1, 2>>, <<1>>, <<>>) }

\* the list as it is
SliceAll(list, n) == list

\* list[:n]
Slice(list, n) == IF Len(list) <= n THEN list ELSE Prefix(list, n)

MaxHighlights == 10
MaxInsights == 5
MaxQuotes == 3

\* the SummaryResult _generate_final_summary builds from a JSON answer
SummaryResult(video_id, content, metadata, language, data) ==
    [video_id |-> video_id, title |-> metadata.title, url |-> metadata.url,
     published_at |-> metadata.published_at, language |-> language,
     summary |-> Get(data, "summary", ""),
     highlights |-> Slice(Get(data, "highlights", <<>>), MaxHighlights),
     new_insights |-> Slice(Get(data, "new_insights", <<>>), MaxInsights),
     notable_quotes |-> Slice(Get(data, "notable_quotes", <<>>), MaxQuotes),
     tokens_estimate |-> (Len(metadata.title) + Len(content)) \div 2]

NoSummary == [ok |-> FALSE]
Summary(data) == [ok |-> TRUE, data |-> data]

\* every answer that is not falsy gives a SummaryResult
FinalSummaryOfAnyText(video_id, content, metadata, language, answer) ==
    IF answer.kind = None THEN NoSummary
    ELSE Summary(SummaryResult(video_id, content, metadata, language, answer))

\* _generate_final_summary: a falsy answer or one that is not JSON gives None
FinalSummary(video_id, content, metadata, language, answer) ==
    IF answer.kind = "json"
    THEN Summary(SummaryResult(video_id, content, metadata, language, answer))
    ELSE NoSummary

\* the map phase keeps the truthy answers, in window order
RECURSIVE ChunkSummaries(_)
ChunkSummaries(answers) ==
    IF answers = <<>> THEN <<>>
    ELSE (IF Head(answers).ok /\ Head(answers).text # <<>>
          THEN <<Head(answers).text>> ELSE <<>>)
         \o ChunkSummaries(Tail(answers))

\* ------------------------------------------------------------------ files
Absent == [exists |-> FALSE]
File(data) == [exists |-> TRUE, whole |-> TRUE, data |-> data]
\* a file whose writing was cut short: it exists and holds part of the data
CutFile(data) == [exists |-> TRUE, whole |-> FALSE, data |-> data]

\* what a text file can hold when its writing is cut short
CutText(text) == {CutFile(Prefix(text, n)) : n \in 0..(Len(text) - 1)}
\* a JSON file cut short holds no parseable document
CutJson == CutFile(<<>>)

\* ------------------------------------------------------------------ input
\* the (video_id, metadata) pairs get_video_ids returns: v1 as a CSV row
\* with a title, v2 as a line of a text file
Meta(title, url, published_at) ==
    [title |-> title, url |-> url, published_at |-> published_at]

Inputs ==
    { [id |-> "v1", metadata |-> Meta(<<"T">>, "https://www.youtube.com/watch?v=v1", "2024-01-01")],
      [id |-> "v2", metadata |-> Meta(<<>>, "https://www.youtube.com/watch?v=v2", "")] }

VideoLists == UNION {[1..n -> Inputs] : n \in 1..MaxVideos}

\* the arguments: use_ytdlp, clean_tags and languages are settings of the
\* installation (.env), force is given per start
Args ==
    [force : BOOLEAN, use_ytdlp : BOOLEAN, clean_tags : BOOLEAN,
     languages : {Languages}, chunk_chars : {ChunkChars},
     chunk_overlap : {ChunkOverlap}, dry_run : {FALSE}]

\* ------------------------------------------------------------------ state
VARIABLES
    videos,            \* the input list, the same at every start
    runs,              \* process starts so far
    items,             \* iterations of the loop begun so far
    faults,            \* save exceptions and crashes so far
    index_file,        \* the rows of index.csv
    transcript_files,  \* per video ID: transcripts/<id>.json and .txt
    summary_files,     \* per video ID: summaries/<id>.json and .md
    pc,                \* where the process is
    args,              \* the arguments of the latest start
    index_data,        \* self.index_data
    i,                 \* position in videos of the item in the loop
    tool_env,          \* what yt-dlp does for the current item, once it matters
    pending,           \* a result obtained and not yet written to its files
    transcript_result, \* what fetch_transcript returned to run
    summary,           \* what generate_summary returned to run
    calls,             \* outbound calls of the call in progress, in order
    tried,             \* sources tried by the current fetch_transcript call
    api_error,         \* how the API source failed in the current call
    transcript_list,   \* the tracks api.list returned in the current call
    transcript,        \* the track picked from transcript_list
    now,               \* time.time(), in ticks
    last_request_time, \* self.last_request_time
    requests,          \* the requests made through _rate_limit, in order
    chunks,            \* the windows of the current _map_reduce_summary call
    prompts,           \* what the current generate_summary call asked the AI
    response,          \* the answer to the current final summary call
    report,            \* what _dry_run printed
    child,             \* the child process of the running program
    exit,              \* how the running program ended
    csv_file,          \* the CSV of videos that process_channel hands on
    completed,         \* the children of process_channel that ended, in order
    loaded,            \* per ID: the status in the index loaded at this start
    visited,           \* positions whose iteration began since this start
    finished,          \* status of each ID whose iteration ended since this start
    saved_at,          \* position of the last iteration that completed a save
    acquired,          \* per visited position: did fetch_transcript succeed
    faulted,           \* did an index save raise since this start
    summary_failed,    \* did a summary attempt fail since this start
    net_acq,           \* per ID: acquisitions from the API or the tool so far
    ai_gen,            \* per ID: summaries generated by AI calls so far
    ever_forced,       \* was any start made with force
    last_fetch         \* per ID: the latest fetch_transcript call

vars ==
    <<videos, runs, items, faults, index_file, transcript_files, summary_files, pc,
      args, index_data, i, tool_env, pending, transcript_result, summary,
      calls, tried, api_error, transcript_list, transcript, now,
      last_request_time, requests, chunks, prompts, response, report,
      child, exit, csv_file, completed, loaded, visited, finished, saved_at,
      acquired, faulted, summary_failed, net_acq, ai_gen, ever_forced, last_fetch>>

disk == <<index_file, transcript_files, summary_files>>
limiter == <<now, last_request_time, requests>>
working == <<chunks, prompts, response>>
shell == <<report, child, exit, csv_file, completed>>
history ==
    <<loaded, visited, finished, saved_at, acquired, faulted, summary_failed,
      net_acq, ai_gen, ever_forced, last_fetch>>

NoEnv == [listing |-> ListingTimeout]
NoCall == [state |-> "none"]
NoCalls == [prev |-> NoCall, cur |-> NoCall]
\* no final summary call was made
NoResponse == [kind |-> "none"]
\* nothing was printed
NoReport == [printed |-> FALSE]
\* the program is running
NoExit == [exited |-> FALSE]

video_id == videos[i].id
metadata == videos[i].metadata

\* time.time() when the tool is constructed: more than one interval after
\* the epoch
StartTime == RequestInterval + 1

\* a new process on a fresh installation: no file, nothing loaded, no call
\* in progress
NoActivity ==
    /\ runs = 0
    /\ items = 0
    /\ faults = 0
    /\ index_file = <<>>
    /\ transcript_files = [v \in Ids |-> [json |-> Absent, txt |-> Absent]]
    /\ summary_files = [v \in Ids |-> [json |-> Absent, md |-> Absent]]
    /\ index_data = <<>>
    /\ i = 1
    /\ tool_env = NoEnv
    /\ pending = NoResult
    /\ transcript_result = NoResult
    /\ summary = NoSummary
    /\ calls = <<>>
    /\ tried = <<>>
    /\ api_error = ""
    /\ transcript = NoTrack
    /\ loaded = [v \in Ids |-> ""]
    /\ visited = {}
    /\ finished = [v \in Ids |-> ""]
    /\ saved_at = 0
    /\ acquired = <<>>
    /\ faulted = FALSE
    /\ summary_failed = FALSE
    /\ net_acq = [v \in Ids |-> 0]
    /\ ai_gen = [v \in Ids |-> 0]
    /\ ever_forced = FALSE
    /\ last_fetch = [v \in Ids |-> NoCalls]
    /\ now = StartTime
    /\ last_request_time = 0
    /\ requests = <<>>
    /\ chunks = <<>>
    /\ prompts = <<>>
    /\ response = NoResponse
    /\ report = NoReport
    /\ child = "none"
    /\ exit = NoExit
    /\ csv_file = Absent
    /\ completed = <<>>

Init ==
    /\ videos \in VideoLists
    /\ args \in {a \in Args : ~a.force}
    /\ pc = "idle"
    /\ transcript_list = <<>>
    /\ NoActivity

Stopped == pc \in {"idle", "done", "aborted", "crashed"}

\* the locals of the loop body and of the calls it makes, when none is live
ClearLocals ==
    /\ tool_env' = NoEnv
    /\ pending' = NoResult
    /\ transcript_result' = NoResult
    /\ summary' = NoSummary
    /\ calls' = <<>>
    /\ tried' = <<>>
    /\ api_error' = ""
    /\ transcript_list' = <<>>
    /\ transcript' = NoTrack
    /\ chunks' = <<>>
    /\ prompts' = <<>>
    /\ response' = NoResponse

\* __init__ and the start of run: load the index, take the first item
LoadedStatus(index) ==
    [v \in Ids |-> IF HasKey(index, v) THEN Lookup(index, v).summary_status
                                       ELSE ""]

StartRun(force) ==
    /\ Stopped
    /\ runs < MaxRuns
    /\ items < MaxItems
    /\ runs' = runs + 1
    /\ args' = [args EXCEPT !.force = force]
    /\ index_data' = LoadIndex(index_file)
    /\ loaded' = LoadedStatus(LoadIndex(index_file))
    /\ i' = 1
    /\ pc' = "item"
    /\ visited' = {}
    /\ finished' = [v \in Ids |-> ""]
    /\ saved_at' = 0
    /\ acquired' = <<>>
    /\ faulted' = FALSE
    /\ summary_failed' = FALSE
    /\ ever_forced' = (ever_forced \/ force)
    /\ ClearLocals
    /\ UNCHANGED <<limiter, shell, videos, items, faults, disk, net_acq, ai_gen, last_fetch>>

\* the record of the item after "update or create video info" and "update
\* metadata if available"
\* the record built from the input alone, whatever the index holds
UpdatedInfoFresh(index, id, meta) ==
    [VideoInfo(id) EXCEPT !.title = meta.title,
                          !.url = meta.url,
                          !.published_at = meta.published_at]

UpdatedInfo(index, id, meta) ==
    LET info == IF HasKey(index, id) THEN Lookup(index, id)
                ELSE [VideoInfo(id) EXCEPT !.title = meta.title,
                                           !.url = meta.url,
                                           !.published_at = meta.published_at]
    IN  [info EXCEPT
            !.title = IF meta.title # <<>> THEN meta.title ELSE @,
            !.published_at = IF meta.published_at # "" THEN meta.published_at ELSE @,
            !.url = IF meta.url # "" THEN meta.url ELSE @]

\* run, top of the loop body up to the call of fetch_transcript
BeginItem ==
    /\ pc = "item"
    /\ items < MaxItems
    /\ items' = items + 1
    /\ index_data' = SetItem(index_data, video_id,
                             UpdatedInfo(index_data, video_id, metadata))
    /\ visited' = visited \cup {i}
    /\ pc' = "fetch"
    /\ UNCHANGED <<limiter, shell, working, videos, runs, faults, disk, args, i, tool_env, pending,
                   transcript_result, summary, calls, tried, api_error, transcript_list, transcript,
                   loaded, finished, saved_at, acquired, faulted,
                   summary_failed, net_acq, ai_gen, ever_forced, last_fetch>>

\* ------------------------------------------------------- fetch_transcript
\* open(txt_path, 'r').read(): universal newlines turn \r\n and \r into \n
RECURSIVE ReadText(_)
ReadText(data) ==
    IF data = <<>> THEN <<>>
    ELSE IF Head(data) = "\r"
    THEN <<"\n">> \o ReadText(IF Len(data) > 1 /\ data[2] = "\n"
                              THEN Tail(Tail(data)) ELSE Tail(data))
    ELSE <<Head(data)>> \o ReadText(Tail(data))

\* TranscriptCached without the test of force
TranscriptCachedAnyway(files, force) ==
    files.json.exists /\ files.txt.exists

\* TranscriptCached with the test of force inverted
TranscriptCachedOnForce(files, force) ==
    files.json.exists /\ files.txt.exists /\ force

\* json_path.exists() and txt_path.exists() and not self.args.force
TranscriptCached(files, force) ==
    files.json.exists /\ files.txt.exists /\ ~force

\* the language reported for a cached transcript
CachedLanguage(index, id) ==
    IF HasKey(index, id) /\ Lookup(index, id).language # ""
    THEN Lookup(index, id).language ELSE "unknown"

\* CachedResult with the text rebuilt from the segments, one per line,
\* instead of read from the .txt file
CachedResultRebuilt(files, index, id) ==
    IF files.json.whole
    THEN Result(files.json.data, Join(TextParts(files.json.data), <<"\n">>),
                CachedLanguage(index, id))
    ELSE NoResult

\* the cache branch: json.load raises on a file cut short, and the handler
\* for any exception returns None
CachedResult(files, index, id) ==
    IF files.json.whole
    THEN Result(files.json.data, ReadText(files.txt.data), CachedLanguage(index, id))
    ELSE NoResult

\* what the transcript service does for one call of the API source:
\* api.list raises, or lists tracks and transcript.fetch raises or returns
ApiBehaviour(list_error, tracks, fetch_error, segments) ==
    [list_error |-> list_error, tracks |-> tracks,
     fetch_error |-> fetch_error, segments |-> segments]

\* the transcript lists of the modelled videos: a manual Japanese track, or
\* a single track that cannot be translated
ApiTrackLists ==
    { <<[lang |-> "ja", generated |-> FALSE, translatable |-> TRUE]>>,
      <<[lang |-> "de", generated |-> TRUE, translatable |-> FALSE]>> }

ApiBehaviours ==
    {ApiBehaviour(e, <<>>, "", <<>>) : e \in ApiErrors}
    \cup {ApiBehaviour("", ts, e, <<>>) : ts \in ApiTrackLists, e \in ApiErrors}
    \cup {ApiBehaviour("", ts, "", sg) : ts \in ApiTrackLists, sg \in ApiSegLists}

\* the API source, from _rate_limit to the processed segments: the exception
\* that leaves the try block, or the result to write and return
ApiOutcome(b, clean_tags, langs) ==
    IF b.list_error # "" THEN [error |-> b.list_error]
    ELSE LET sel == SelectTrack(b.tracks, langs)
         IN  IF ~sel.found THEN [error |-> "ValueError"]
             ELSE IF b.fetch_error # "" THEN [error |-> b.fetch_error]
             ELSE LET processed == ProcessSegments(b.segments, clean_tags)
                  IN  [error |-> "",
                       result |-> Result(processed, FullText(processed),
                                         sel.selected_lang)]

\* the outbound calls of the API source
ApiCalls(b, langs) ==
    IF b.list_error = "" /\ SelectTrack(b.tracks, langs).found
    THEN <<"rate_limit", "api.list", "api.fetch">>
    ELSE <<"rate_limit", "api.list">>

\* TriesYtdlpFirst with the test inverted
TriesYtdlpLast(use_ytdlp) == ~use_ytdlp

\* "if self.args.use_ytdlp:" ahead of the API source
TriesYtdlpFirst(use_ytdlp) == use_ytdlp

\* which except clause of fetch_transcript retries with yt-dlp
FallsBack(error, use_ytdlp) ==
    \/ error \in {"TranscriptsDisabled", "NoTranscriptFound"} /\ ~use_ytdlp
    \/ error = "IpBlocked"

Attempt(source, ok) == [source |-> source, ok |-> ok]

\* fetch_transcript returns r to run, error being what the API source raised
Returned(r, error) ==
    /\ transcript_result' = r
    /\ acquired' = Append(acquired, r.ok)
    /\ last_fetch' =
          [last_fetch EXCEPT ![video_id] =
              [prev |-> @.cur,
               cur |-> [state |-> IF r.ok THEN "ok" ELSE "failed",
                        force |-> args.force,
                        segments |-> IF r.ok THEN r.segments ELSE <<>>,
                        text |-> IF r.ok THEN r.text ELSE <<>>,
                        quiet |-> (calls' = <<>>),
                        reason |-> IF r.ok THEN "" ELSE error]]]
    /\ pc' = "fetched"

Return(r) == Returned(r, api_error)

FetchCached ==
    /\ pc = "fetch"
    /\ TranscriptCached(transcript_files[video_id], args.force)
    /\ calls' = calls
    /\ Return(CachedResult(transcript_files[video_id], index_data, video_id))
    /\ UNCHANGED <<limiter, shell, working, videos, runs, items, faults, disk, args, index_data, i, tool_env,
                   pending, summary, tried, api_error, transcript_list, transcript, loaded, visited,
                   finished, saved_at, faulted, summary_failed, net_acq,
                   ai_gen, ever_forced>>

\* a source produced `r`: go on to write the two files
Obtained(r) ==
    /\ pending' = r
    /\ net_acq' = [net_acq EXCEPT ![video_id] = @ + 1]
    /\ pc' = "write_json"
    /\ UNCHANGED <<transcript_result, acquired, last_fetch>>

\* "Try yt-dlp first if enabled"; what yt-dlp does for this video is fixed
\* here
YtdlpFirst ==
    /\ pc = "fetch"
    /\ ~TranscriptCached(transcript_files[video_id], args.force)
    /\ TriesYtdlpFirst(args.use_ytdlp)
    /\ tool_env' \in ToolEnvs
    /\ LET r == ToolOutcome(tool_env', args.clean_tags, args.languages)
       IN  /\ calls' = calls \o ToolCalls(tool_env', args.languages)
           /\ tried' = Append(tried, Attempt("ytdlp", r.ok))
           /\ IF r.ok THEN Obtained(r)
              ELSE /\ pc' = "api"
                   /\ UNCHANGED <<pending, net_acq, transcript_result,
                                  acquired, last_fetch>>
    /\ UNCHANGED <<limiter, shell, working, videos, runs, items, faults, disk, args, index_data, i,
                   summary, api_error, transcript_list, transcript, loaded, visited, finished, saved_at,
                   faulted, summary_failed, ai_gen, ever_forced>>

\* the API source and the except clause its failure lands in; when it fails
\* as the first source, what yt-dlp does for this video is fixed here
ApiSource ==
    /\ \/ pc = "api"
       \/ /\ pc = "fetch"
          /\ ~TranscriptCached(transcript_files[video_id], args.force)
          /\ ~TriesYtdlpFirst(args.use_ytdlp)
    /\ \E b \in ApiBehaviours :
          LET o == ApiOutcome(b, args.clean_tags, args.languages)
          IN  /\ calls' = calls \o ApiCalls(b, args.languages)
              /\ tried' = Append(tried, Attempt("api", o.error = ""))
              /\ api_error' = o.error
              /\ transcript_list' = b.tracks
              /\ transcript' = IF b.list_error = ""
                               THEN SelectTrack(b.tracks, args.languages)
                               ELSE NoTrack
              /\ tool_env' \in IF o.error = "" \/ pc = "api"
                                THEN {tool_env} ELSE ToolEnvs
              /\ IF o.error = "" THEN Obtained(o.result)
                 ELSE IF FallsBack(o.error, args.use_ytdlp)
                 THEN /\ pc' = "fallback"
                      /\ UNCHANGED <<pending, net_acq, transcript_result,
                                     acquired, last_fetch>>
                 ELSE /\ Returned(NoResult, o.error)
                      /\ UNCHANGED <<pending, net_acq>>
    /\ UNCHANGED <<limiter, shell, working, videos, runs, items, faults, disk, args, index_data, i,
                   summary, loaded, visited, finished, saved_at, faulted,
                   summary_failed, ai_gen, ever_forced>>

\* "Try yt-dlp as fallback" in the except clauses
YtdlpFallback ==
    /\ pc = "fallback"
    /\ LET r == ToolOutcome(tool_env, args.clean_tags, args.languages)
       IN  /\ calls' = calls \o ToolCalls(tool_env, args.languages)
           /\ tried' = Append(tried, Attempt("ytdlp", r.ok))
           /\ IF r.ok THEN Obtained(r)
              ELSE /\ Return(NoResult)
                   /\ UNCHANGED <<pending, net_acq>>
    /\ UNCHANGED <<limiter, shell, working, videos, runs, items, faults, disk, args, index_data, i, tool_env,
                   summary, api_error, transcript_list, transcript, loaded, visited, finished, saved_at,
                   faulted, summary_failed, ai_gen, ever_forced>>

\* json.dump(segments) to transcripts/<id>.json
WriteTranscriptJson ==
    /\ pc = "write_json"
    /\ transcript_files' =
          [transcript_files EXCEPT ![video_id].json = File(pending.segments)]
    /\ pc' = "write_txt"
    /\ UNCHANGED <<limiter, shell, working, videos, runs, items, faults, index_file, summary_files, args,
                   index_data, i, tool_env, pending, transcript_result,
                   summary, calls, tried, api_error, transcript_list, transcript, history>>

\* the text file is left empty
WrittenNothing(text) == File(<<>>)

\* open(txt_path, 'w') and f.write(full_text)
Written(text) == File(text)

\* f.write(full_text) to transcripts/<id>.txt, and the return of the result
WriteTranscriptTxt ==
    /\ pc = "write_txt"
    /\ transcript_files' =
          [transcript_files EXCEPT ![video_id].txt = Written(pending.text)]
    /\ calls' = calls
    /\ Return(pending)
    /\ pending' = NoResult
    /\ UNCHANGED <<limiter, shell, working, videos, runs, items, faults, index_file, summary_files, args,
                   index_data, i, tool_env, summary, tried, api_error, transcript_list, transcript,
                   loaded, visited, finished, saved_at, faulted,
                   summary_failed, net_acq, ai_gen, ever_forced>>

\* ------------------------------------------------------------ run, part 2
\* the frame of fetch_transcript is gone
FetchReturned ==
    /\ tool_env' = NoEnv
    /\ calls' = <<>>
    /\ tried' = <<>>
    /\ api_error' = ""
    /\ transcript_list' = <<>>
    /\ transcript' = NoTrack

\* "if not transcript_result": mark the item and go to save the index
NoTranscript ==
    /\ pc = "fetched"
    /\ ~transcript_result.ok
    /\ index_data' =
          SetItem(index_data, video_id,
                  [Lookup(index_data, video_id) EXCEPT
                      !.summary_status = "TRANSCRIPT_UNAVAILABLE",
                      !.error = "Failed to fetch transcript"])
    /\ FetchReturned
    /\ pc' = "save"
    /\ UNCHANGED <<limiter, shell, working, videos, runs, items, faults, disk, args, i, pending,
                   transcript_result, summary, history>>

\* record language and length, go on to generate_summary
HaveTranscript ==
    /\ pc = "fetched"
    /\ transcript_result.ok
    /\ index_data' =
          SetItem(index_data, video_id,
                  [Lookup(index_data, video_id) EXCEPT
                      !.language = transcript_result.lang,
                      !.transcript_chars = Len(transcript_result.text)])
    /\ FetchReturned
    /\ pc' = "summarize"
    /\ UNCHANGED <<limiter, shell, working, videos, runs, items, faults, disk, args, i, pending,
                   transcript_result, summary, history>>

\* ------------------------------------------------------- generate_summary
\* the test without md_path.exists()
SummaryCachedOnJson(files, force) == files.json.exists /\ ~force

\* json_path.exists() and md_path.exists() and not self.args.force
SummaryCached(files, force) ==
    files.json.exists /\ files.md.exists /\ ~force

\* the cache branch: json.load raises on a file cut short, and the handler
\* returns None
CachedSummary(files) ==
    IF files.json.whole THEN Summary(files.json.data) ELSE NoSummary

\* the threshold itself already counts as long
UsesMapReduceFromTwice(text) == Len(text) >= args.chunk_chars * 2

\* len(text) > self.args.chunk_chars * 2
UsesMapReduce(text) == Len(text) > args.chunk_chars * 2

\* _chunk_text(text), with chunk_size and overlap from the arguments
ChunkText(text) ==
    ChunksFrom(text, 0, args.chunk_chars, args.chunk_overlap)

\* self.index_data.get(video_id, VideoInfo(video_id=video_id)).language
IndexLanguage(index, id) ==
    IF HasKey(index, id) THEN Lookup(index, id).language ELSE ""

\* _format_markdown: the rendering of a SummaryResult
FormatMarkdown(data) ==
    [title |-> data.title, published_at |-> data.published_at,
     url |-> data.url, language |-> data.language, summary |-> data.summary,
     highlights |-> data.highlights, new_insights |-> data.new_insights,
     notable_quotes |-> data.notable_quotes]

AiCall == <<"rate_limit", "ai">>

RECURSIVE Repeat(_, _)
Repeat(s, n) == IF n = 0 THEN <<>> ELSE s \o Repeat(s, n - 1)

\* generate_summary returns r to run
Summarized(r) ==
    /\ summary' = r
    /\ pc' = "summarized"

\* a SummaryResult was built: go on to write the two files
Generated(r) ==
    /\ pending' = r
    /\ ai_gen' = [ai_gen EXCEPT ![video_id] = @ + 1]
    /\ pc' = "write_summary_json"
    /\ UNCHANGED summary

LoadSummary ==
    /\ pc = "summarize"
    /\ SummaryCached(summary_files[video_id], args.force)
    /\ Summarized(CachedSummary(summary_files[video_id]))
    /\ UNCHANGED <<limiter, shell, working, videos, runs, items, faults, disk, args, index_data, i, tool_env,
                   pending, transcript_result, calls, tried, api_error, transcript_list, transcript,
                   history>>

\* a prompt given to _call_ai: "map" for a window of the map phase,
\* "reduced" and "direct" for the final call with and without is_reduced
Prompt(kind, content) == [kind |-> kind, content |-> content]

MapPrompts(windows) ==
    [k \in 1..Len(windows) |-> Prompt("map", windows[k])]

\* _generate_final_summary: what is made of the answer to the final call
GenerateFinalSummary(content, answer) ==
    /\ response' = answer
    /\ LET r == FinalSummary(video_id, content, metadata,
                             IndexLanguage(index_data, video_id), answer)
       IN  IF r.ok THEN Generated(r)
           ELSE Summarized(r) /\ UNCHANGED <<pending, ai_gen>>

\* _direct_summary: one final call against the full text
DirectSummary ==
    /\ pc = "summarize"
    /\ ~SummaryCached(summary_files[video_id], args.force)
    /\ ~UsesMapReduce(transcript_result.text)
    /\ prompts' = prompts \o <<Prompt("direct", transcript_result.text)>>
    /\ calls' = calls \o AiCall
    /\ \E answer \in FinalAnswers :
          GenerateFinalSummary(transcript_result.text, answer)
    /\ UNCHANGED <<limiter, shell, chunks, videos, runs, items, faults, disk, args, index_data, i,
                   tool_env, transcript_result, tried, api_error, transcript_list, transcript,
                   loaded, visited, finished, saved_at, acquired, faulted, summary_failed,
                   net_acq, ever_forced, last_fetch>>

\* _map_reduce_summary: one call per window, then the final call against the
\* joined answers, unless no window gave one
MapReduceSummary ==
    /\ pc = "summarize"
    /\ ~SummaryCached(summary_files[video_id], args.force)
    /\ UsesMapReduce(transcript_result.text)
    /\ chunks' = ChunkText(transcript_result.text)
    /\ \E answers \in [1..Len(chunks') -> ChunkAnswers] :
          LET chunk_summaries == ChunkSummaries(answers)
              combined_points == Join(chunk_summaries, <<"\n">>)
          IN  IF chunk_summaries = <<>>
              THEN /\ prompts' = prompts \o MapPrompts(chunks')
                   /\ calls' = calls \o Repeat(AiCall, Len(chunks'))
                   /\ Summarized(NoSummary)
                   /\ UNCHANGED <<pending, ai_gen, response>>
              ELSE /\ prompts' = prompts \o MapPrompts(chunks')
                                  \o <<Prompt("reduced", combined_points)>>
                   /\ calls' = calls \o Repeat(AiCall, Len(chunks') + 1)
                   /\ \E answer \in FinalAnswers :
                         GenerateFinalSummary(combined_points, answer)
    /\ UNCHANGED <<limiter, shell, videos, runs, items, faults, disk, args, index_data, i, tool_env,
                   transcript_result, tried, api_error, transcript_list, transcript, loaded, visited,
                   finished, saved_at, acquired, faulted, summary_failed,
                   net_acq, ever_forced, last_fetch>>

\* json.dump(asdict(summary_data)) to summaries/<id>.json
WriteSummaryJson ==
    /\ pc = "write_summary_json"
    /\ summary_files' =
          [summary_files EXCEPT ![video_id].json = File(pending.data)]
    /\ pc' = "write_summary_md"
    /\ UNCHANGED <<limiter, shell, working, videos, runs, items, faults, index_file, transcript_files, args,
                   index_data, i, tool_env, pending, transcript_result,
                   summary, calls, tried, api_error, transcript_list, transcript, history>>

\* the rendering to summaries/<id>.md, and the return of the summary
WriteSummaryMd ==
    /\ pc = "write_summary_md"
    /\ summary_files' =
          [summary_files EXCEPT ![video_id].md = File(FormatMarkdown(pending.data))]
    /\ Summarized(pending)
    /\ pending' = NoResult
    /\ UNCHANGED <<limiter, shell, working, videos, runs, items, faults, index_file, transcript_files, args,
                   index_data, i, tool_env, transcript_result, calls, tried,
                   api_error, transcript_list, transcript, history>>

\* run: "if summary: ... else: ..." up to the save of the index
AfterSummary ==
    /\ pc = "summarized"
    /\ index_data' =
          SetItem(index_data, video_id,
                  IF summary.ok
                  THEN [Lookup(index_data, video_id) EXCEPT
                           !.tokens_estimate = summary.data.tokens_estimate,
                           !.summary_status = "COMPLETED",
                           !.error = ""]
                  ELSE [Lookup(index_data, video_id) EXCEPT
                           !.summary_status = "SUMMARY_FAILED",
                           !.error = "Failed to generate summary"])
    /\ summary_failed' = (summary_failed \/ ~summary.ok)
    /\ pc' = "save"
    /\ UNCHANGED <<limiter, shell, working, videos, runs, items, faults, disk, args, i, tool_env, pending,
                   transcript_result, summary, calls, tried, api_error, transcript_list, transcript,
                   loaded, visited, finished, saved_at, acquired, faulted,
                   net_acq, ai_gen, ever_forced, last_fetch>>

\* ------------------------------------------------------------ _save_index
\* the loop goes on to the next item, or run ends
NextItem ==
    /\ i' = i + 1
    /\ pc' = IF i + 1 > Len(videos) THEN "done" ELSE "item"
    /\ finished' =
          [finished EXCEPT ![video_id] =
              IF HasKey(index_data, video_id)
              THEN Lookup(index_data, video_id).summary_status ELSE "ERROR"]
    /\ ClearLocals

\* what a call of _save_index that raises leaves in the file
FailedSave(file, index) == {file} \cup CutShort(SaveRows(index))

\* _save_index in the try block returns
SaveIndex ==
    /\ pc = "save"
    /\ index_file' = SaveRows(index_data)
    /\ saved_at' = i
    /\ NextItem
    /\ UNCHANGED <<limiter, shell, videos, runs, items, faults, transcript_files, summary_files,
                   args, index_data, loaded, visited, acquired, faulted,
                   summary_failed, net_acq, ai_gen, ever_forced, last_fetch>>

\* _save_index in the try block raises (the disk is full, the file cannot be
\* opened): control goes to "except Exception as e"
SaveIndexRaises ==
    /\ pc = "save"
    /\ faults < MaxFaults
    /\ faults' = faults + 1
    /\ index_file' \in FailedSave(index_file, index_data)
    /\ faulted' = TRUE
    /\ pc' = "except"
    /\ UNCHANGED <<limiter, shell, working, videos, runs, items, transcript_files, summary_files, args,
                   index_data, i, tool_env, pending, transcript_result,
                   summary, calls, tried, api_error, transcript_list, transcript, loaded, visited,
                   finished, saved_at, acquired, summary_failed, net_acq,
                   ai_gen, ever_forced, last_fetch>>

\* Errored without the assignment of the message
ErroredNoMessage(info, message) == [info EXCEPT !.summary_status = "ERROR"]

\* video_info.summary_status = 'ERROR'; video_info.error = str(e)
Errored(info, message) ==
    [info EXCEPT !.summary_status = "ERROR", !.error = message]

\* the handler: video_info = self.index_data.get(video_id, VideoInfo(...)),
\* status ERROR, error str(e)
HandleException ==
    /\ pc = "except"
    /\ index_data' =
          IF HasKey(index_data, video_id)
          THEN SetItem(index_data, video_id,
                       Errored(Lookup(index_data, video_id), "OSError"))
          ELSE index_data
    /\ pc' = "save_in_except"
    /\ UNCHANGED <<limiter, shell, working, videos, runs, items, faults, disk, args, i, tool_env, pending,
                   transcript_result, summary, calls, tried, api_error, transcript_list, transcript,
                   history>>

\* _save_index in the handler returns
SaveInHandler ==
    /\ pc = "save_in_except"
    /\ index_file' = SaveRows(index_data)
    /\ saved_at' = i
    /\ NextItem
    /\ UNCHANGED <<limiter, shell, videos, runs, items, faults, transcript_files, summary_files,
                   args, index_data, loaded, visited, acquired, faulted,
                   summary_failed, net_acq, ai_gen, ever_forced, last_fetch>>

\* _save_index in the handler raises: nothing catches it, run ends with the
\* exception and the process exits
SaveInHandlerRaises ==
    /\ pc = "save_in_except"
    /\ faults < MaxFaults
    /\ faults' = faults + 1
    /\ index_file' \in FailedSave(index_file, index_data)
    /\ pc' = "aborted"
    /\ index_data' = <<>>
    /\ ClearLocals
    /\ UNCHANGED <<limiter, shell, videos, runs, items, transcript_files, summary_files, args, i,
                   history>>

\* ------------------------------------------------------------------ crash
\* the process is killed: the file being written at that moment, if any, is
\* left as it was or cut short; memory is lost
InFetch == pc \in {"fetch", "api", "fallback", "write_json", "write_txt"}

Crash ==
    /\ ~Stopped
    /\ faults < MaxFaults
    /\ faults' = faults + 1
    /\ index_file' \in
          IF pc \in {"save", "save_in_except"}
          THEN FailedSave(index_file, index_data) ELSE {index_file}
    /\ transcript_files' \in
          IF pc = "write_json"
          THEN {transcript_files,
                [transcript_files EXCEPT ![video_id].json = CutJson]}
          ELSE IF pc = "write_txt"
          THEN {transcript_files} \cup
               {[transcript_files EXCEPT ![video_id].txt = f] :
                    f \in CutText(pending.text)}
          ELSE {transcript_files}
    /\ summary_files' \in
          IF pc = "write_summary_json"
          THEN {summary_files,
                [summary_files EXCEPT ![video_id].json = CutJson]}
          ELSE IF pc = "write_summary_md"
          THEN {summary_files,
                [summary_files EXCEPT ![video_id].md = CutFile(<<>>)]}
          ELSE {summary_files}
    /\ last_fetch' =
          IF InFetch
          THEN [last_fetch EXCEPT ![video_id] =
                   [prev |-> @.cur, cur |-> [state |-> "cut"]]]
          ELSE last_fetch
    /\ pc' = "crashed"
    /\ index_data' = <<>>
    /\ ClearLocals
    /\ UNCHANGED <<limiter, shell, videos, runs, items, args, i, loaded, visited, finished,
                   saved_at, acquired, faulted, summary_failed, net_acq,
                   ai_gen, ever_forced>>

\* ---------------------------------------------------------- specification
Next ==
    \/ \E force \in BOOLEAN : StartRun(force)
    \/ BeginItem
    \/ FetchCached
    \/ YtdlpFirst
    \/ ApiSource
    \/ YtdlpFallback
    \/ WriteTranscriptJson
    \/ WriteTranscriptTxt
    \/ NoTranscript
    \/ HaveTranscript
    \/ LoadSummary
    \/ DirectSummary
    \/ MapReduceSummary
    \/ WriteSummaryJson
    \/ WriteSummaryMd
    \/ AfterSummary
    \/ SaveIndex
    \/ SaveIndexRaises
    \/ HandleException
    \/ SaveInHandler
    \/ SaveInHandlerRaises
    \/ Crash

Spec == Init /\ [][Next]_vars

\* ------------------------------------- track selection, taken on its own
\* the language preferences given in args.languages
LanguagePrefs == {Languages, <<"en", "ja">>, <<"de">>}

\* the API source just after api.list returned a transcript list
InitSel ==
    /\ videos \in [1..1 -> Inputs]
    /\ args \in [force : {FALSE}, use_ytdlp : {FALSE}, clean_tags : {FALSE},
                 languages : LanguagePrefs]
    /\ pc = "select"
    /\ transcript_list \in TrackLists
    /\ NoActivity

\* the three loops that pick `transcript`
Select ==
    /\ pc = "select"
    /\ transcript' = SelectTrack(transcript_list, args.languages)
    /\ pc' = "selected"
    /\ UNCHANGED <<limiter, shell, working, videos, runs, items, faults, disk, args, index_data, i,
                   tool_env, pending, transcript_result, summary, calls,
                   tried, api_error, transcript_list, history>>

SpecSel == InitSel /\ [][Select]_vars

\* ------------------------- the language yt-dlp downloads, taken on its own
\* the languages of the caption tracks a video can have, in the order of the
\* listing, and their names in it
ListedLangs == <<"de", "en", "fr", "ja">>

LangNames ==
    ("de" :> <<"G", "e", "r", "m", "a", "n">>) @@ ("en" :> EnglishChars)
    @@ ("fr" :> <<"F", "r", "e", "n", "c", "h">>) @@ ("ja" :> JapaneseChars)

\* the track lines of the stdout of "yt-dlp --list-subs": the tag and the
\* name of each track (the header lines and the format columns, which hold
\* none of the texts looked for, are left out)
RECURSIVE ListSubs(_)
ListSubs(ts) ==
    IF ts = <<>> THEN <<>>
    ELSE TagChars[Head(ts).lang] \o <<" ">> \o LangNames[Head(ts).lang]
         \o <<"\n">> \o ListSubs(Tail(ts))

\* the caption tracks of a video: any of the four languages, one track each
ListedTracks ==
    { SelectSeq([k \in 1..Len(ListedLangs) |->
                    [lang |-> ListedLangs[k], generated |-> TRUE,
                     translatable |-> FALSE]],
                LAMBDA t : t.lang \in chosen) :
      chosen \in SUBSET {ListedLangs[k] : k \in 1..Len(ListedLangs)} }

InitLang ==
    /\ videos \in [1..1 -> Inputs]
    /\ \E languages \in LanguagePrefs :
          args = [force |-> FALSE, use_ytdlp |-> TRUE, clean_tags |-> FALSE,
                  languages |-> languages, chunk_chars |-> ChunkChars,
                  chunk_overlap |-> ChunkOverlap, dry_run |-> FALSE]
    /\ pc = "list_subs"
    /\ transcript_list \in ListedTracks
    /\ NoActivity

\* _fetch_transcript_ytdlp on the video: the listing names its tracks, and
\* the download of the language picked gives the two events
PickLanguage ==
    /\ pc = "list_subs"
    /\ tool_env' = ToolEnv(Listing(ListSubs(transcript_list)), "ok", ".json3",
                           EventsAB)
    /\ calls' = calls \o ToolCalls(tool_env', args.languages)
    /\ transcript_result' =
          ToolOutcome(tool_env', args.clean_tags, args.languages)
    /\ pc' = "picked"
    /\ UNCHANGED <<limiter, shell, working, videos, runs, items, faults, disk,
                   args, index_data, i, pending, summary, tried, api_error,
                   transcript_list, transcript, history>>

SpecLang == InitLang /\ [][PickLanguage]_vars

\* ------------------------------------- the request layer, taken on its own
\* tenacity's stop_after_attempt(3) on _call_anthropic and _call_openai
MaxAttempts == 3

\* what the provider does at each attempt of one AI call: the request raises
\* or returns text
ProviderBehaviours == [1..MaxAttempts -> {"raises", "text"}]

\* one execution of the body of _call_anthropic / _call_openai: the try block
\* returns the text, the handler of every exception logs and returns None
CallBody(outcome) ==
    [raised |-> FALSE, ok |-> (outcome = "text")]

\* the @retry wrapper: call the body again while it raises and attempts are
\* left; an exception after the last attempt goes to the caller
RECURSIVE Retry(_, _)
Retry(b, attempt) ==
    LET r == CallBody(b[attempt])
    IN  IF ~r.raised THEN [attempts |-> attempt, raised |-> FALSE, ok |-> r.ok]
        ELSE IF attempt = MaxAttempts
        THEN [attempts |-> attempt, raised |-> TRUE, ok |-> FALSE]
        ELSE Retry(b, attempt + 1)

\* SleepFor with the sleep left out
SleepForNothing(elapsed) == 0

\* "if elapsed < self.request_interval: time.sleep(...)": the time slept
SleepFor(elapsed) ==
    IF elapsed < RequestInterval THEN RequestInterval - elapsed ELSE 0

\* _rate_limit: time.sleep returns after at least the time asked, and the
\* second time.time() is `late` ticks after that
RateLimit(late) ==
    /\ now' = now + SleepFor(now - last_request_time) + late
    /\ last_request_time' = now'

Request(family, slept, stamp) ==
    [family |-> family, start |-> now, slept |-> slept, stamp |-> stamp]

\* the tool right after construction, before any request
InitReq ==
    /\ videos \in [1..1 -> Inputs]
    /\ args \in {a \in Args : ~a.force /\ ~a.use_ytdlp /\ ~a.clean_tags}
    /\ pc = "requests"
    /\ transcript_list = <<>>
    /\ NoActivity

\* time passes between two requests
Tick ==
    /\ pc = "requests"
    /\ now < StartTime + MaxTime
    /\ now' = now + 1
    /\ UNCHANGED <<last_request_time, requests, working, shell, videos, runs, items, faults,
                   disk, pc, args, index_data, i, tool_env, pending,
                   transcript_result, summary, calls, tried, api_error,
                   transcript_list, transcript, history>>

\* the transcript family: self._rate_limit() ahead of api.list
TranscriptRequest ==
    /\ pc = "requests"
    /\ Len(requests) < MaxRequests
    /\ \E late \in 0..1 : RateLimit(late)
    /\ requests' = Append(requests,
                          Request("transcript",
                                  SleepFor(now - last_request_time), now'))
    /\ UNCHANGED <<working, shell, videos, runs, items, faults, disk, pc, args, index_data, i,
                   tool_env, pending, transcript_result, summary, calls,
                   tried, api_error, transcript_list, transcript, history>>

\* the AI family: _call_ai, self._rate_limit() and then the provider call
\* under @retry
CallAi ==
    /\ pc = "requests"
    /\ Len(requests) < MaxRequests
    /\ \E late \in 0..1 : RateLimit(late)
    /\ \E b \in ProviderBehaviours :
          requests' =
             Append(requests,
                    Request("ai", SleepFor(now - last_request_time), now')
                    @@ [provider |-> b, call |-> Retry(b, 1)])
    /\ UNCHANGED <<working, shell, videos, runs, items, faults, disk, pc, args, index_data, i,
                   tool_env, pending, transcript_result, summary, calls,
                   tried, api_error, transcript_list, transcript, history>>

NextReq == Tick \/ TranscriptRequest \/ CallAi

SpecReq == InitReq /\ [][NextReq]_vars

\* ------------------------------------------- chunking, taken on its own
MaxChunk == 5       \* largest args.chunk_chars
MaxText == 9        \* longest text given to _chunk_text

Alphabet == <<"a", "b", "c", "d", "e", "f", "g", "h", "i">>

\* the text of n characters
TextOf(n) == [k \in 1..n |-> Alphabet[((k - 1) % Len(Alphabet)) + 1]]

\* the arguments with chunk_overlap < chunk_chars, and no text yet
InitChunk ==
    /\ videos \in [1..1 -> Inputs]
    /\ \E chunk_chars \in 1..MaxChunk, chunk_overlap \in 0..(MaxChunk - 1) :
          /\ chunk_overlap < chunk_chars
          /\ args = [force |-> FALSE, use_ytdlp |-> FALSE, clean_tags |-> FALSE,
                     languages |-> Languages, chunk_chars |-> chunk_chars,
                     chunk_overlap |-> chunk_overlap, dry_run |-> FALSE]
    /\ pc = "chunk"
    /\ transcript_list = <<>>
    /\ NoActivity

\* chunks = self._chunk_text(text), for a text in one segment
ChunkTextCall ==
    /\ pc = "chunk"
    /\ \E n \in 0..MaxText :
          /\ transcript_result' =
                Result(<<Seg(0, 1000, TextOf(n))>>, TextOf(n), "ja")
          /\ chunks' = ChunkText(TextOf(n))
    /\ pc' = "chunked"
    /\ UNCHANGED <<limiter, shell, prompts, response, videos, runs, items, faults, disk,
                   args, index_data, i, tool_env, pending, summary, calls,
                   tried, api_error, transcript_list, transcript, history>>

SpecChunk == InitChunk /\ [][ChunkTextCall]_vars

\* ------------------------------ the loop of _chunk_text, step by step
\* more windows than any text gives when start advances by one or more
MaxWindows == MaxText + 1

\* an index of a Python slice of a sequence of length n: counted from the
\* end when negative, and clipped to 0..n
SliceIndex(k, n) ==
    IF k < 0 THEN (IF k + n < 0 THEN 0 ELSE k + n)
    ELSE IF k > n THEN n ELSE k

\* text[a:b]
PySlice(text, a, b) ==
    SubSeq(text, SliceIndex(a, Len(text)) + 1, SliceIndex(b, Len(text)))

\* `start` after as many iterations as there are windows: it begins at 0 and
\* each iteration adds chunk_size - overlap
LoopStart == Len(chunks) * (args.chunk_chars - args.chunk_overlap)

\* any pair of a positive chunk_chars and a chunk_overlap from 0 on, the
\* overlap below the size or not
InitLoop ==
    /\ videos \in [1..1 -> Inputs]
    /\ \E chunk_chars \in 1..MaxChunk, chunk_overlap \in 0..MaxChunk :
          args = [force |-> FALSE, use_ytdlp |-> FALSE, clean_tags |-> FALSE,
                  languages |-> Languages, chunk_chars |-> chunk_chars,
                  chunk_overlap |-> chunk_overlap, dry_run |-> FALSE]
    /\ pc = "chunk_text"
    /\ transcript_list = <<>>
    /\ NoActivity

LoopFrame ==
    UNCHANGED <<limiter, shell, prompts, response, videos, runs, items,
                faults, disk, args, index_data, i, tool_env, pending,
                summary, calls, tried, api_error, transcript_list,
                transcript, history>>

\* _chunk_text(text) is entered: chunks = [], start = 0
LoopEnter ==
    /\ pc = "chunk_text"
    /\ \E n \in 0..MaxText :
          transcript_result' =
             Result(<<Seg(0, 1000, TextOf(n))>>, TextOf(n), "ja")
    /\ chunks' = <<>>
    /\ pc' = "chunk_loop"
    /\ LoopFrame

\* one iteration of "while start < len(text)"; the model follows the loop
\* for MaxWindows iterations
LoopStep ==
    /\ pc = "chunk_loop"
    /\ LoopStart < Len(transcript_result.text)
    /\ Len(chunks) < MaxWindows
    /\ LET text == transcript_result.text
           end == IF LoopStart + args.chunk_chars < Len(text)
                  THEN LoopStart + args.chunk_chars ELSE Len(text)
       IN  chunks' = Append(chunks, PySlice(text, LoopStart, end))
    /\ UNCHANGED <<pc, transcript_result>>
    /\ LoopFrame

\* the test of the while fails: return chunks
LoopExit ==
    /\ pc = "chunk_loop"
    /\ LoopStart >= Len(transcript_result.text)
    /\ pc' = "chunked"
    /\ UNCHANGED <<chunks, transcript_result>>
    /\ LoopFrame

NextLoop == LoopEnter \/ LoopStep \/ LoopExit

\* the interpreter goes on with the next statement
SpecLoop == InitLoop /\ [][NextLoop]_vars /\ WF_vars(NextLoop)

\* ------------------------------- the final summary call, taken on its own
MaxArray == 11      \* longest array in a JSON answer

ArrayKeys == {"highlights", "new_insights", "notable_quotes"}

\* the array 1, 2, ..., n
ListOf(n) == [k \in 1..n |-> k]

\* the JSON objects the AI can answer with: any of the three arrays may be
\* missing, and each may be longer than what is kept of it
JsonAnswers ==
    { [key \in keys \cup {"kind", "summary"} |->
          IF key = "kind" THEN "json"
          ELSE IF key = "summary" THEN "s"
          ELSE ListOf(lengths[key])] :
      keys \in SUBSET ArrayKeys, lengths \in [ArrayKeys -> 0..MaxArray] }

InitFinal ==
    /\ videos \in [1..1 -> Inputs]
    /\ args \in {a \in Args : ~a.force /\ ~a.use_ytdlp /\ ~a.clean_tags}
    /\ pc = "final"
    /\ transcript_list = <<>>
    /\ NoActivity

\* _direct_summary on a text, the AI answering the final call with JSON
FinalCall ==
    /\ pc = "final"
    /\ \E n \in {0, MaxText} :
          /\ transcript_result' =
                Result(<<Seg(0, 1000, TextOf(n))>>, TextOf(n), "ja")
          /\ prompts' = <<Prompt("direct", TextOf(n))>>
          /\ calls' = AiCall
          /\ \E answer \in JsonAnswers :
                GenerateFinalSummary(TextOf(n), answer)
    /\ UNCHANGED <<limiter, shell, chunks, videos, runs, items, faults, disk, args,
                   index_data, i, tool_env, tried, api_error, transcript_list,
                   transcript, loaded, visited, finished, saved_at, acquired,
                   faulted, summary_failed, net_acq, ever_forced, last_fetch>>

SpecFinal == InitFinal /\ [][FinalCall]_vars

\* ------------------------------------------------ dry run, taken on its own
MaxListed == 11     \* longest input list of a dry run
MaxPreview == 10

\* every item counts as existing once its ID is in the index
ClassifyIgnoringForce(id, index, force) ==
    IF HasKey(index, id) THEN "EXISTS" ELSE "NEW"

\* "if video_id in self.index_data and not self.args.force"
Classify(id, index, force) ==
    IF HasKey(index, id) /\ ~force THEN "EXISTS" ELSE "NEW"

\* the items counted with one status
CountOf(status, list, index, force) ==
    Cardinality({k \in 1..Len(list) :
                    Classify(list[k].id, index, force) = status})

\* _dry_run: the lines for videos[:10], the "... and n more" line, and the
\* two counts taken over videos[:10] and videos[10:]
DryRunReport(list, index, force) ==
    [printed |-> TRUE,
     total |-> Len(list),
     preview |->
        [k \in 1..(IF Len(list) < MaxPreview THEN Len(list) ELSE MaxPreview) |->
            [status |-> Classify(list[k].id, index, force),
             video_id |-> list[k].id]],
     more |-> IF Len(list) > MaxPreview THEN Len(list) - MaxPreview ELSE 0,
     new_count |-> CountOf("NEW", list, index, force),
     existing_count |-> CountOf("EXISTS", list, index, force)]

\* what earlier runs can have left: an index with a row for none, one or
\* both of the IDs, and the four files of v1 or none
LeftIndexes ==
    { <<>>,
      <<[VideoInfo("v1") EXCEPT !.summary_status = "COMPLETED"]>>,
      <<[VideoInfo("v2") EXCEPT !.summary_status = "TRANSCRIPT_UNAVAILABLE"]>>,
      <<[VideoInfo("v2") EXCEPT !.summary_status = "ERROR"],
        [VideoInfo("v1") EXCEPT !.summary_status = "COMPLETED"]>> }

InitDry ==
    /\ videos \in UNION {[1..n -> Inputs] : n \in 0..MaxListed}
    /\ args \in {a \in Args : ~a.force /\ ~a.use_ytdlp /\ ~a.clean_tags}
    /\ pc = "fresh"
    /\ transcript_list = <<>>
    /\ NoActivity

\* the installation after earlier runs
EarlierRuns ==
    /\ pc = "fresh"
    /\ \E index \in LeftIndexes : index_file' = SaveRows(index)
    /\ \E kept \in BOOLEAN :
          /\ transcript_files' =
                [transcript_files EXCEPT !["v1"] =
                    IF kept THEN [json |-> File(<<>>), txt |-> File(<<>>)] ELSE @]
          /\ summary_files' =
                [summary_files EXCEPT !["v1"] =
                    IF kept THEN [json |-> CutJson, md |-> File(<<>>)] ELSE @]
    /\ pc' = "installed"
    /\ UNCHANGED <<limiter, working, shell, videos, runs, items, faults, args,
                   index_data, i, tool_env, pending, transcript_result,
                   summary, calls, tried, api_error, transcript_list,
                   transcript, history>>

\* a start with --dry-run: __init__ loads the index, run calls _dry_run and
\* returns
DryRun ==
    /\ pc = "installed"
    /\ \E force \in BOOLEAN :
          /\ args' = [args EXCEPT !.force = force, !.dry_run = TRUE]
          /\ index_data' = LoadIndex(index_file)
          /\ report' = DryRunReport(videos, LoadIndex(index_file), force)
    /\ runs' = runs + 1
    /\ pc' = "dry_done"
    /\ UNCHANGED <<limiter, working, child, exit, csv_file, completed, videos,
                   items, faults, disk,
                   i, tool_env, pending, transcript_result, summary, calls,
                   tried, api_error, transcript_list, transcript, history>>

NextDry == EarlierRuns \/ DryRun

SpecDry == InitDry /\ [][NextDry]_vars

\* ------------------------------------------ interruption, taken on its own
\* sys.exit(code), or the end of main
Exit(code) ==
    [exited |-> TRUE, code |-> code, interrupted |-> FALSE, traceback |-> FALSE]

\* sys.exit(130) in "except KeyboardInterrupt"
ExitInterrupted ==
    [exited |-> TRUE, code |-> 130, interrupted |-> TRUE, traceback |-> FALSE]

\* a KeyboardInterrupt no handler catches: the interpreter prints the
\* traceback and ends, killed by SIGINT (-2) or with status 1, by its version
Uncaught ==
    { [exited |-> TRUE, code |-> code, interrupted |-> TRUE, traceback |-> TRUE] :
      code \in {-2, 1} }

\* process_channel or yt_summary is started on a list of videos
InitInt ==
    /\ videos \in VideoLists
    /\ args \in {a \in Args : ~a.force}
    /\ pc \in {"process_channel", "yt_summary"}
    /\ transcript_list = <<>>
    /\ NoActivity

IntFrame ==
    UNCHANGED <<limiter, working, report, csv_file, completed, videos, runs,
                items, faults, disk,
                args, index_data, tool_env, pending, transcript_result,
                summary, tried, api_error, transcript_list, transcript,
                history>>

\* process_channel, step 1: subprocess.run of channel_index.py, unless an
\* existing CSV is used
ChannelIndexStart ==
    /\ pc = "process_channel"
    /\ \E use_existing_csv \in BOOLEAN :
          IF use_existing_csv
          THEN pc' = "step2" /\ UNCHANGED child
          ELSE pc' = "step1" /\ child' = "running"
    /\ UNCHANGED <<exit, i, calls>>
    /\ IntFrame

\* channel_index.py ends: check=True makes a non-zero status an error
ChannelIndexEnd ==
    /\ pc = "step1"
    /\ child' = "exited"
    /\ \E returncode \in {0, 1} :
          IF returncode # 0
          THEN pc' = "exited" /\ exit' = Exit(1)
          ELSE pc' = "step2" /\ UNCHANGED exit
    /\ UNCHANGED <<i, calls>>
    /\ IntFrame

\* the interruption arrives in step 1: subprocess.run kills the child and
\* re-raises, and only CalledProcessError has a handler
InterruptStep1 ==
    /\ pc = "step1"
    /\ child' = "killed"
    /\ exit' \in Uncaught
    /\ pc' = "exited"
    /\ UNCHANGED <<i, calls>>
    /\ IntFrame

\* process_channel, step 2: Popen of yt_summary.py
SummaryStart ==
    /\ pc = "step2"
    /\ child' = "running"
    /\ pc' = "wait"
    /\ UNCHANGED <<exit, i, calls>>
    /\ IntFrame

\* process.wait() returns
SummaryEnd ==
    /\ pc = "wait"
    /\ child' = "exited"
    /\ \E returncode \in {0, 1} : exit' = Exit(returncode)
    /\ pc' = "exited"
    /\ UNCHANGED <<i, calls>>
    /\ IntFrame

\* the interruption arrives in process.wait(): "except KeyboardInterrupt"
InterruptStep2 ==
    /\ pc = "wait"
    /\ child' = "terminated"
    /\ exit' = ExitInterrupted
    /\ pc' = "exited"
    /\ UNCHANGED <<i, calls>>
    /\ IntFrame

\* yt_summary run directly: subprocess.run of "yt-dlp --list-subs" for the
\* item
ToolList ==
    /\ pc = "yt_summary"
    /\ child' = "running"
    /\ calls' = Append(calls, "list")
    /\ pc' = "listing"
    /\ UNCHANGED <<exit, i>>
    /\ IntFrame

\* the loop of run goes on, or main ends
ItemDone ==
    /\ i' = i + 1
    /\ IF i + 1 > Len(videos)
       THEN pc' = "exited" /\ exit' = Exit(0)
       ELSE pc' = "yt_summary" /\ UNCHANGED exit

\* the listing ends: the download of the captions follows when a language
\* was found
ToolListEnd ==
    /\ pc = "listing"
    /\ \E found \in BOOLEAN :
          IF found
          THEN /\ child' = "running"
               /\ calls' = Append(calls, "download")
               /\ pc' = "download"
               /\ UNCHANGED <<exit, i>>
          ELSE child' = "exited" /\ ItemDone /\ UNCHANGED calls
    /\ IntFrame

\* the download ends
ToolDownloadEnd ==
    /\ pc = "download"
    /\ child' = "exited"
    /\ ItemDone
    /\ UNCHANGED calls
    /\ IntFrame

\* the interruption arrives while yt-dlp runs: subprocess.run kills the
\* child and re-raises; KeyboardInterrupt is no Exception, so the handlers
\* of _fetch_transcript_ytdlp, fetch_transcript and run let it pass, and
\* main has none
InterruptTool ==
    /\ pc \in {"listing", "download"}
    /\ child' = "killed"
    /\ exit' \in Uncaught
    /\ pc' = "exited"
    /\ UNCHANGED <<i, calls>>
    /\ IntFrame

NextInt ==
    \/ ChannelIndexStart
    \/ ChannelIndexEnd
    \/ InterruptStep1
    \/ SummaryStart
    \/ SummaryEnd
    \/ InterruptStep2
    \/ ToolList
    \/ ToolListEnd
    \/ ToolDownloadEnd
    \/ InterruptTool

SpecInt == InitInt /\ [][NextInt]_vars

\* ------------------------------------------ the two steps of process_channel
\* the arguments of process_channel that decide its steps: whether
\* --use-existing-csv names a file, and the channel given
ChannelArgs == [use_existing_csv : BOOLEAN, channel_input : {"", "UCx"}]

\* how channel_index.py can end: it saves the CSV and returns, it finds no
\* video, saves nothing and returns, it calls sys.exit(1) or dies of an
\* exception, or a signal kills it
ListingOutcomes ==
    { [returncode |-> 0, saved |-> TRUE], [returncode |-> 0, saved |-> FALSE],
      [returncode |-> 1, saved |-> FALSE], [returncode |-> -9, saved |-> FALSE] }

\* Popen.returncode of yt_summary.py: the end of main, an exception nothing
\* caught, an argparse error, death by SIGINT or by SIGKILL
SummaryCodes == {0, 1, 2, -2, -9}

\* the status the parent of a process sees after sys.exit(n)
ExitStatusRaw(n) == n
ExitStatus(n) == n % 256

\* an exception nothing catches: the traceback is printed, the status is 1
Traceback ==
    [exited |-> TRUE, code |-> 1, interrupted |-> FALSE, traceback |-> TRUE]

\* a child that ended
Ended(cmd, returncode) == [cmd |-> cmd, returncode |-> returncode]

\* process_channel is started on a channel with some videos
InitChan ==
    /\ videos \in VideoLists
    /\ args \in ChannelArgs
    /\ pc = "fresh"
    /\ transcript_list = <<>>
    /\ NoActivity

ChanFrame ==
    UNCHANGED <<limiter, working, report, videos, runs, items, faults, disk,
                args, index_data, i, tool_env, pending, transcript_result,
                summary, tried, api_error, transcript_list, transcript,
                history>>

\* what is at the path of the CSV before the start: nothing, or the list an
\* earlier start saved
CsvLeft ==
    /\ pc = "fresh"
    /\ csv_file' \in {Absent} \cup {File(v) : v \in VideoLists}
    /\ pc' = "main"
    /\ UNCHANGED <<child, exit, completed, calls>>
    /\ ChanFrame

\* parser.error: neither a channel nor an existing CSV was given
ParserError ==
    /\ pc = "main"
    /\ ~args.use_existing_csv /\ args.channel_input = ""
    /\ exit' = Exit(2)
    /\ pc' = "exited"
    /\ UNCHANGED <<child, csv_file, completed, calls>>
    /\ ChanFrame

\* with --use-existing-csv step 1 is skipped
ExistingCsv ==
    /\ pc = "main"
    /\ args.use_existing_csv
    /\ pc' = "check_csv"
    /\ UNCHANGED <<child, exit, csv_file, completed, calls>>
    /\ ChanFrame

\* step 1: subprocess.run starts channel_index.py
ListVideos ==
    /\ pc = "main"
    /\ ~args.use_existing_csv /\ args.channel_input # ""
    /\ child' = "running"
    /\ calls' = Append(calls, "channel_index.py")
    /\ pc' = "step1"
    /\ UNCHANGED <<exit, csv_file, completed>>
    /\ ChanFrame

\* step 1: subprocess.run cannot start the child; only CalledProcessError
\* has a handler
ListVideosNotStarted ==
    /\ pc = "main"
    /\ ~args.use_existing_csv /\ args.channel_input # ""
    /\ exit' = Traceback
    /\ pc' = "exited"
    /\ UNCHANGED <<child, csv_file, completed, calls>>
    /\ ChanFrame

\* channel_index.py ends: check=True makes a non-zero status a
\* CalledProcessError, and its handler calls sys.exit(1)
ListVideosEnd ==
    /\ pc = "step1"
    /\ \E o \in ListingOutcomes :
          /\ completed' = Append(completed, Ended("channel_index.py", o.returncode))
          /\ csv_file' = IF o.saved THEN File(videos) ELSE csv_file
          /\ IF o.returncode # 0
             THEN pc' = "exited" /\ exit' = Exit(ExitStatus(1))
             ELSE pc' = "check_csv" /\ UNCHANGED exit
    /\ child' = "exited"
    /\ UNCHANGED calls
    /\ ChanFrame

\* if not csv_file.exists(): sys.exit(1)
CheckCsv ==
    /\ pc = "check_csv"
    /\ IF csv_file.exists
       THEN pc' = "step2" /\ UNCHANGED exit
       ELSE pc' = "exited" /\ exit' = Exit(ExitStatus(1))
    /\ UNCHANGED <<child, csv_file, completed, calls>>
    /\ ChanFrame

\* step 2: Popen starts yt_summary.py
Summarize ==
    /\ pc = "step2"
    /\ child' = "running"
    /\ calls' = Append(calls, "yt_summary.py")
    /\ pc' = "wait"
    /\ UNCHANGED <<exit, csv_file, completed>>
    /\ ChanFrame

\* step 2: Popen raises; "except Exception" calls sys.exit(1)
SummarizeNotStarted ==
    /\ pc = "step2"
    /\ exit' = Exit(ExitStatus(1))
    /\ pc' = "exited"
    /\ UNCHANGED <<child, csv_file, completed, calls>>
    /\ ChanFrame

\* process.wait() returns: sys.exit(process.returncode) when it is not 0,
\* the end of main otherwise
SummarizeEnd ==
    /\ pc = "wait"
    /\ \E returncode \in SummaryCodes :
          /\ completed' = Append(completed, Ended("yt_summary.py", returncode))
          /\ exit' = Exit(ExitStatus(returncode))
    /\ child' = "exited"
    /\ pc' = "exited"
    /\ UNCHANGED <<csv_file, calls>>
    /\ ChanFrame

NextChan ==
    \/ CsvLeft
    \/ ParserError
    \/ ExistingCsv
    \/ ListVideos
    \/ ListVideosNotStarted
    \/ ListVideosEnd
    \/ CheckCsv
    \/ Summarize
    \/ SummarizeNotStarted
    \/ SummarizeEnd

SpecChan == InitChan /\ [][NextChan]_vars

\* ------------------------------------------ loading the index, on its own
\* rows of an index file edited by hand or written by another tool: the row
\* of v1 with a count that is empty, no number, or missing because the row
\* is shorter than the header; with an empty ID; and rows of a file whose
\* header lacks a column
GoodRow(id) ==
    RowOf([VideoInfo(id) EXCEPT !.summary_status = "COMPLETED",
                                !.transcript_chars = 5, !.tokens_estimate = 2])

Without(row, key) == [k \in (DOMAIN row) \ {key} |-> row[k]]

FirstRows ==
       {[GoodRow("v1") EXCEPT !.transcript_chars = c, !.tokens_estimate = t] :
           c \in {"5", "", "abc", None}, t \in {"2", ""}}
  \cup {[GoodRow("v1") EXCEPT !.video_id = ""],
        Without(GoodRow("v1"), "transcript_chars"),
        Without(GoodRow("v1"), "summary_status"),
        Without(GoodRow("v1"), "video_id")}

\* one such row, before or after the good row of v2, or alone
IndexFiles ==
    UNION {{<<r>>, <<r, GoodRow("v2")>>, <<GoodRow("v2"), r>>} : r \in FirstRows}

InitLoad ==
    /\ videos \in VideoLists
    /\ args \in {a \in Args : ~a.force /\ ~a.use_ytdlp /\ ~a.clean_tags}
    /\ pc = "fresh"
    /\ transcript_list = <<>>
    /\ NoActivity

\* the index file the tool finds
IndexLeft ==
    /\ pc = "fresh"
    /\ index_file' \in IndexFiles
    /\ pc' = "installed"
    /\ UNCHANGED <<limiter, working, shell, videos, runs, items, faults,
                   transcript_files, summary_files, args, index_data, i,
                   tool_env, pending, transcript_result, summary, calls,
                   tried, api_error, transcript_list, transcript, history>>

\* YouTubeSummaryTool(args): self.index_data = self._load_index(); what it
\* raises ends main
Construct ==
    /\ pc = "installed"
    /\ runs' = runs + 1
    /\ IF LoadError(index_file) = ""
       THEN /\ index_data' = LoadIndex(index_file)
            /\ pc' = "constructed"
            /\ UNCHANGED exit
       ELSE /\ exit' = [exited |-> TRUE, code |-> 1, interrupted |-> FALSE,
                        traceback |-> TRUE, error |-> LoadError(index_file)]
            /\ pc' = "exited"
            /\ UNCHANGED index_data
    /\ UNCHANGED <<limiter, working, report, child, csv_file, completed, videos,
                   items, faults, disk,
                   args, i, tool_env, pending, transcript_result, summary,
                   calls, tried, api_error, transcript_list, transcript,
                   history>>

NextLoad == IndexLeft \/ Construct

SpecLoad == InitLoad /\ [][NextLoad]_vars

\* ------------------------------- saving and loading again, on their own
\* rows the tool has written: counts of one and of two digits, with and
\* without title, language and error
WrittenRows(id) ==
    { [GoodRow(id) EXCEPT !.title = t, !.lang = l,
                          !.transcript_chars = c, !.tokens_estimate = e[1],
                          !.summary_status = e[2], !.error = e[3]] :
      t \in {<<>>, <<"T">>}, l \in {"", "ja"}, c \in {"0", "5", "17"},
      e \in { <<"0", "PENDING", "">>, <<"2", "COMPLETED", "">>,
              <<"8", "COMPLETED", "">>,
              <<"0", "TRANSCRIPT_UNAVAILABLE", "Failed to fetch transcript">>,
              <<"0", "SUMMARY_FAILED", "Failed to generate summary">>,
              <<"0", "ERROR", "OSError">> } }

\* the last row of a file whose rewrite was cut after the counts of the
\* row: csv.DictReader gives None for the columns that are missing
ShortRow(id) ==
    [GoodRow(id) EXCEPT !.summary_status = None, !.error = None]

\* index files: one written row, alone or before a short row
RoundFiles ==
    UNION {{<<row>>, <<row, ShortRow("v2")>>} : row \in WrittenRows("v1")}

InitRound ==
    /\ videos \in [1..1 -> Inputs]
    /\ args \in {a \in Args : ~a.force /\ ~a.use_ytdlp /\ ~a.clean_tags}
    /\ pc = "fresh"
    /\ transcript_list = <<>>
    /\ NoActivity

\* the index file the tool finds
RoundLeft ==
    /\ pc = "fresh"
    /\ index_file' \in RoundFiles
    /\ pc' = "installed"
    /\ UNCHANGED <<limiter, working, shell, videos, runs, items, faults,
                   transcript_files, summary_files, args, index_data, i,
                   tool_env, pending, transcript_result, summary, calls,
                   tried, api_error, transcript_list, transcript, history>>

\* self._save_index() on the mapping that was loaded
SaveLoaded ==
    /\ pc = "constructed"
    /\ index_file' = SaveRows(index_data)
    /\ pc' = "saved"
    /\ UNCHANGED <<limiter, working, shell, videos, runs, items, faults,
                   transcript_files, summary_files, args, index_data, i,
                   tool_env, pending, transcript_result, summary, calls,
                   tried, api_error, transcript_list, transcript, history>>

\* the next start: self._load_index() on the file just written; index_data
\* holds the saved mapping until then
Reload ==
    /\ pc = "saved"
    /\ runs' = runs + 1
    /\ IF LoadError(index_file) = ""
       THEN /\ index_data' = LoadIndex(index_file)
            /\ pc' = "reloaded"
            /\ UNCHANGED exit
       ELSE /\ exit' = [exited |-> TRUE, code |-> 1, interrupted |-> FALSE,
                        traceback |-> TRUE, error |-> LoadError(index_file)]
            /\ pc' = "exited"
            /\ UNCHANGED index_data
    /\ UNCHANGED <<limiter, working, report, child, csv_file, completed, videos,
                   items, faults, disk,
                   args, i, tool_env, pending, transcript_result, summary,
                   calls, tried, api_error, transcript_list, transcript,
                   history>>

NextRound == RoundLeft \/ Construct \/ SaveLoaded \/ Reload

SpecRound == InitRound /\ [][NextRound]_vars

\* -------------------------- a start on what three earlier starts have left
\* v1 was completed by a first start; a second start with force was killed
\* while it rewrote summaries/v1.json (or, for comparison, was not), and the
\* third start, without force, follows; the index also holds the record of
\* v2, which a start on another input list left and which is not in this
\* input
LeftText == <<"a", "b">>
LeftSegments == <<Seg(0, 1000, LeftText)>>
LeftSummary ==
    SummaryResult("v1", LeftText, Meta(<<"T">>, "", ""), "ja",
                  JsonAnswer("s", <<1, 2>>, <<1>>, <<>>))

LeftSummaryFiles ==
    { [json |-> File(LeftSummary), md |-> File(FormatMarkdown(LeftSummary))],
      [json |-> CutJson, md |-> File(FormatMarkdown(LeftSummary))] }

LeftOther ==
    [VideoInfo("v2") EXCEPT !.url = "https://www.youtube.com/watch?v=v2",
                            !.summary_status = "TRANSCRIPT_UNAVAILABLE",
                            !.error = "Failed to fetch transcript"]

InitLeft ==
    /\ videos \in UNION {[1..n -> {v \in Inputs : v.id = "v1"}] :
                           n \in 1..MaxVideos}
    /\ args \in {a \in Args : ~a.force}
    /\ pc = "fresh"
    /\ transcript_list = <<>>
    /\ NoActivity

Left ==
    /\ pc = "fresh"
    /\ index_file' =
          SaveRows(<<LeftOther,
                     [UpdatedInfo(<<>>, "v1", videos[1].metadata) EXCEPT
                         !.language = "ja",
                         !.transcript_chars = Len(LeftText),
                         !.tokens_estimate = LeftSummary.tokens_estimate,
                         !.summary_status = "COMPLETED"]>>)
    /\ transcript_files' =
          [transcript_files EXCEPT
              !["v1"] = [json |-> File(LeftSegments), txt |-> File(LeftText)]]
    /\ summary_files' \in
          {[summary_files EXCEPT !["v1"] = f] : f \in LeftSummaryFiles}
    /\ pc' = "idle"
    /\ UNCHANGED <<limiter, working, shell, videos, runs, items, faults, args,
                   index_data, i, tool_env, pending, transcript_result,
                   summary, calls, tried, api_error, transcript_list,
                   transcript, history>>

SpecLeft == InitLeft /\ [][Left \/ Next]_vars

\* ------------------------- the sources on the same captions, on their own
MaxCaptions == 2    \* captions of the video

\* caption texts: plain, a bracketed tag alone, blank, a tag before a word
CaptionTexts ==
    { <<"a">>, <<"[", "m", "]">>, <<" ">>, <<"[", "x", "]", "b">> }

CaptionLists == UNION {[1..n -> CaptionTexts] : n \in 0..MaxCaptions}

\* the transcript list of a video with one generated Japanese track, and
\* what fetching that track gives
Published(captions) ==
    <<[lang |-> "ja", generated |-> TRUE, translatable |-> FALSE,
       snippets |-> captions]>>

Snippets == transcript_list[1].snippets

\* the captions as transcript.fetch() returns them, one second each
AsSegments(captions) ==
    [k \in 1..Len(captions) |-> Seg((k - 1) * 1000, 1000, captions[k])]

\* the captions as the events of a .json3 file
AsEvents(captions) ==
    [k \in 1..Len(captions) |-> Event((k - 1) * 1000, 1000, <<captions[k]>>)]

\* the captions as the cues of a .vtt file, each text in a <c> tag
AsCues(captions) ==
    [k \in 1..Len(captions) |->
        Cue((k - 1) * 1000, k * 1000, <<<<"<", "c", ">">> \o captions[k]>>)]

\* --clean-tags is given; no source was asked yet
InitClean ==
    /\ videos \in [1..1 -> Inputs]
    /\ args \in {a \in Args : a.clean_tags /\ ~a.force}
    /\ pc = "sources"
    /\ transcript_list \in {Published(c) : c \in CaptionLists}
    /\ NoActivity

\* one of the two sources that are compared is still to be asked
SourceLeft == pc \in {"sources", "fetched"} /\ Len(tried) < 2

CleanFrame ==
    UNCHANGED <<limiter, shell, working, videos, runs, items, faults, disk,
                args, index_data, i, pending, summary, api_error,
                transcript_list, transcript, loaded, visited, finished,
                saved_at, faulted, summary_failed, net_acq, ai_gen,
                ever_forced>>

\* the API source on the captions
ApiClean ==
    /\ SourceLeft
    /\ LET b == ApiBehaviour("", transcript_list, "", AsSegments(Snippets))
           o == ApiOutcome(b, args.clean_tags, args.languages)
       IN  /\ calls' = calls \o ApiCalls(b, args.languages)
           /\ tried' = Append(tried, Attempt("api", o.error = ""))
           /\ Returned(IF o.error = "" THEN o.result ELSE NoResult, o.error)
    /\ UNCHANGED tool_env
    /\ CleanFrame

\* yt-dlp on the captions, downloaded in the format of extension ext
ToolClean(ext) ==
    /\ tool_env' = ToolEnv(Listing(<<"j", "a">>), "ok", ext,
                           IF ext = ".vtt" THEN AsCues(Snippets)
                                           ELSE AsEvents(Snippets))
    /\ calls' = calls \o ToolCalls(tool_env', args.languages)
    /\ LET r == ToolOutcome(tool_env', args.clean_tags, args.languages)
       IN  /\ tried' = Append(tried, Attempt("ytdlp", r.ok))
           /\ Returned(r, "")

Json3Clean ==
    /\ SourceLeft
    /\ ToolClean(".json3")
    /\ CleanFrame

VttClean ==
    /\ SourceLeft
    /\ ToolClean(".vtt")
    /\ CleanFrame

NextClean == ApiClean \/ Json3Clean \/ VttClean

SpecClean == InitClean /\ [][NextClean]_vars

\* ------------------------------------------------------------ properties
\* C1: a run that ended, normally or with an exception, has taken up every
\* item of its list: no item's failure keeps the later items from being
\* processed.
C1_LaterItemsProcessed ==
    pc \in {"done", "aborted"} => visited = 1..Len(videos)

\* C2: in a run without force, while an item whose loaded record has a
\* terminal status is in the loop, no call to a transcript source or to the
\* AI is made for it and its status stays as loaded.
C2_TerminalNotReprocessed ==
    (/\ ~Stopped
     /\ pc # "item"
     /\ ~args.force
     /\ loaded[video_id] \in Terminal)
    => /\ calls = <<>>
       /\ Lookup(index_data, video_id).summary_status = loaded[video_id]

\* C3 as stated: as long as no start was made with force, no ID has had more
\* than one successful acquisition from the API or the tool, nor more than
\* one summary generated by AI calls, crashes and restarts included.
C3_AtMostOnce ==
    ~ever_forced => \A v \in Ids : net_acq[v] <= 1 /\ ai_gen[v] <= 1

\* C3, amended: without force, once both transcript files of an ID exist no
\* step acquires its transcript from the API or the tool again, and once
\* both summary files exist no step generates its summary again.
C3_CachedNotRepeated ==
    [][\A v \in Ids :
          /\ (/\ ~args.force
              /\ transcript_files[v].json.exists
              /\ transcript_files[v].txt.exists) => net_acq'[v] = net_acq[v]
          /\ (/\ ~args.force
              /\ summary_files[v].json.exists
              /\ summary_files[v].md.exists) => ai_gen'[v] = ai_gen[v]]_vars

\* after a crash and a restart without force, an item is served from both
\* caches: one acquisition and one generation in all
C3_Witness ==
    /\ ~ever_forced
    /\ runs = 2
    /\ faults = 1
    /\ pc = "summarized"
    /\ summary.ok
    /\ calls = <<>>
    /\ net_acq[video_id] = 1
    /\ ai_gen[video_id] = 1

\* C4: after a crash at any point, the index file read back by _load_index
\* holds, for every item whose iteration had finished, the status that
\* iteration ended with.
C4_IndexSurvivesCrash ==
    pc = "crashed" =>
        \A v \in Ids :
            finished[v] # "" =>
                /\ HasKey(LoadIndex(index_file), v)
                /\ Lookup(LoadIndex(index_file), v).summary_status = finished[v]

\* C5: when an item's iteration has ended, with any of the four outcomes,
\* the index file was rewritten in that iteration and read back it equals
\* the mapping in memory, the item's outcome included.
C5_IndexSavedPerItem ==
    (pc \in {"item", "done"} /\ i > 1) =>
        /\ saved_at = i - 1
        /\ LoadIndex(index_file) = index_data
        /\ finished[videos[i - 1].id] \in Terminal
        /\ Lookup(index_data, videos[i - 1].id).summary_status
              = finished[videos[i - 1].id]

\* a run of two items ended: the first with ERROR after its save raised, the
\* second with COMPLETED
C5_Witness ==
    /\ pc = "done"
    /\ Len(videos) = 2
    /\ saved_at = 2
    /\ finished[videos[1].id] = "ERROR"
    /\ finished[videos[2].id] = "COMPLETED"
    /\ Len(index_file) = 2

\* C6: after one run from an empty index over distinct IDs, with no summary
\* failure and no fault, the index file has exactly one row per input ID,
\* COMPLETED where fetch_transcript succeeded and TRANSCRIPT_UNAVAILABLE
\* where it failed.
C6_OneRunOutcome ==
    (/\ pc = "done"
     /\ runs = 1
     /\ faults = 0
     /\ ~summary_failed
     /\ \A j, k \in 1..Len(videos) : videos[j].id = videos[k].id => j = k)
    => /\ Len(index_file) = Len(videos)
       /\ \A k \in 1..Len(videos) :
             /\ index_file[k].video_id = videos[k].id
             /\ index_file[k].summary_status =
                   IF acquired[k] THEN "COMPLETED" ELSE "TRANSCRIPT_UNAVAILABLE"

\* a run of two distinct items, the first acquired and summarized, the
\* second without transcript
C6_Witness ==
    /\ pc = "done"
    /\ runs = 1
    /\ faults = 0
    /\ ~summary_failed
    /\ Len(videos) = 2
    /\ videos[1].id # videos[2].id
    /\ acquired = <<TRUE, FALSE>>

C8_FallbackOnEveryFailure ==
    (/\ pc = "fetched"
     /\ api_error # ""
     /\ ToolOutcome(tool_env, args.clean_tags, args.languages).ok)
    => transcript_result
          = ToolOutcome(tool_env, args.clean_tags, args.languages)

\* C9: on a cache miss the first source tried is the API without use_ytdlp
\* and yt-dlp with it, the second is the other one, no source is tried
\* after one succeeded, and the call succeeds exactly when the last source
\* tried did.
C9_SourceOrder ==
    (InFetch \/ pc = "fetched") /\ tried # <<>> =>
        /\ tried[1].source = IF args.use_ytdlp THEN "ytdlp" ELSE "api"
        /\ Len(tried) >= 2 => tried[2].source # tried[1].source
        /\ \A k \in 1..(Len(tried) - 1) : ~tried[k].ok
        /\ pc = "fetched" => transcript_result.ok = tried[Len(tried)].ok

\* without use_ytdlp the API failed, yt-dlp was tried next and its result
\* was returned
C9_Witness ==
    /\ pc = "fetched"
    /\ ~args.use_ytdlp
    /\ tried = <<Attempt("api", FALSE), Attempt("ytdlp", TRUE)>>
    /\ transcript_result.ok

\* C10: the track picked is the manual track of the earliest preferred tag
\* that has one; failing that the generated track of the earliest preferred
\* tag that has one; failing that the first listed track, translated and
\* labelled "ja (translated)"; and when that track cannot be translated, or
\* the list is empty, none.
C10_StrictPriority ==
    pc = "selected" =>
        LET ts == transcript_list
            langs == args.languages
            Has(k, gen) == \E t \in Range(ts) : t.lang = langs[k] /\ t.generated = gen
            Earliest(k, gen) == Has(k, gen) /\ \A j \in 1..(k - 1) : ~Has(j, gen)
            manual == \E k \in 1..Len(langs) : Has(k, FALSE)
            generated == \E k \in 1..Len(langs) : Has(k, TRUE)
        IN  IF manual
            THEN /\ transcript.found
                 /\ ~transcript.translated
                 /\ ~transcript.track.generated
                 /\ transcript.track \in Range(ts)
                 /\ \E k \in 1..Len(langs) :
                       /\ Earliest(k, FALSE)
                       /\ transcript.track.lang = langs[k]
                       /\ transcript.selected_lang = langs[k]
            ELSE IF generated
            THEN /\ transcript.found
                 /\ ~transcript.translated
                 /\ transcript.track.generated
                 /\ transcript.track \in Range(ts)
                 /\ \E k \in 1..Len(langs) :
                       /\ Earliest(k, TRUE)
                       /\ transcript.track.lang = langs[k]
                       /\ transcript.selected_lang = langs[k]
            ELSE IF ts # <<>> /\ ts[1].translatable
            THEN /\ transcript.found
                 /\ transcript.translated
                 /\ transcript.track = ts[1]
                 /\ transcript.selected_lang = "ja (translated)"
            ELSE ~transcript.found

\* a list with a generated track of the first preferred tag and a manual
\* track of a later one: the manual track is picked
C10_Witness ==
    /\ pc = "selected"
    /\ Len(args.languages) >= 2
    /\ \E t \in Range(transcript_list) :
          t.lang = args.languages[1] /\ t.generated
    /\ transcript.found
    /\ ~transcript.track.generated
    /\ transcript.selected_lang = args.languages[2]

\* C11: a call of fetch_transcript that reports success returns at least one
\* segment, whichever of the cache, the API and yt-dlp produced the result.
C11_NoEmptySuccess ==
    (pc = "fetched" /\ transcript_result.ok) => transcript_result.segments # <<>>

\* C12: an AI call whose provider request raises is tried again, up to three
\* attempts in all: the call stops at the first attempt that returns text and
\* succeeds, or fails, without raising, after three attempts that raised.
C12_RetriedUpToThree ==
    \A k \in 1..Len(requests) :
        requests[k].family = "ai" =>
            LET b == requests[k].provider
                good == {a \in 1..MaxAttempts : b[a] = "text"}
            IN  /\ ~requests[k].call.raised
                /\ requests[k].call.ok = (good # {})
                /\ requests[k].call.attempts =
                      IF good = {} THEN MaxAttempts
                      ELSE CHOOSE a \in good : \A c \in good : a <= c

\* C13: the first request on a fresh limiter does not sleep, two consecutive
\* stamps are at least one interval apart, and n requests take at least
\* n - 1 intervals from the start of the first to the stamp of the last.
C13_NoBursts ==
    requests # <<>> =>
        /\ requests[1].slept = 0
        /\ \A k \in 2..Len(requests) :
              requests[k].stamp - requests[k - 1].stamp >= RequestInterval
        /\ requests[Len(requests)].stamp - requests[1].start
              >= (Len(requests) - 1) * RequestInterval

\* three requests, the second right after the first and made to sleep
C13_Witness ==
    /\ Len(requests) = 3
    /\ requests[2].start = requests[1].stamp
    /\ requests[2].slept = RequestInterval
    /\ requests[3].slept = 0

\* C14: a request sleeps only on account of an earlier request of its own
\* family made less than one interval before it: the transcript family and
\* the AI family do not delay one another.
C14_IndependentFamilies ==
    \A k \in 1..Len(requests) :
        requests[k].slept > 0 =>
            \E j \in 1..(k - 1) :
                /\ requests[j].family = requests[k].family
                /\ requests[k].start - requests[j].stamp < RequestInterval

C16_ErrorRecorded ==
    /\ pc = "save_in_except" =>
          /\ HasKey(index_data, video_id)
          /\ Lookup(index_data, video_id).summary_status = "ERROR"
          /\ Lookup(index_data, video_id).error = "OSError"
    /\ (pc \in {"item", "done"} /\ i > 1
        /\ finished[videos[i - 1].id] = "ERROR") =>
          LET row == Lookup(LoadIndex(index_file), videos[i - 1].id)
          IN  row.summary_status = "ERROR" /\ row.error = "OSError"

\* the first of two items ended with ERROR, its row is in the file and the
\* loop is at the second item
C16_Witness ==
    /\ pc = "item"
    /\ i = 2
    /\ finished[videos[1].id] = "ERROR"
    /\ Len(index_file) = 1
    /\ index_file[1].summary_status = "ERROR"
    /\ index_file[1].error = "OSError"

\* the final calls among the prompts of a generate_summary call
FinalCalls(ps) ==
    Cardinality({k \in 1..Len(ps) : ps[k].kind \in {"direct", "reduced"}})

\* C17: when the final structured-summary call returns text that is not a
\* JSON document, generate_summary returns None after that one final call,
\* no further AI call is made for the item, no summary file is written, and
\* run sets the item's status to SUMMARY_FAILED
C17_NotJsonFails ==
    [][ /\ (response # response' /\ response'.kind = "not json") =>
              /\ pc' = "summarized"
              /\ summary' = NoSummary
              /\ FinalCalls(prompts') = 1
              /\ summary_files' = summary_files
        /\ response.kind = "not json" =>
              /\ summary_files' = summary_files
              /\ prompts' \in {prompts, <<>>}
              /\ calls' \in {calls, <<>>}
              /\ (pc = "summarized" /\ pc' # "crashed") =>
                    Lookup(index_data', video_id).summary_status
                       = "SUMMARY_FAILED"
      ]_vars

\* the answer to the final call was not JSON and the item's status was set
C17_Witness ==
    /\ pc = "save"
    /\ response.kind = "not json"
    /\ FinalCalls(prompts) = 1
    /\ Lookup(index_data, video_id).summary_status = "SUMMARY_FAILED"

\* C18: generate_summary takes the map-reduce path exactly when the text is
\* longer than twice chunk_chars (a text of exactly that length is summarized
\* directly), and the direct path makes exactly one AI call, whose prompt
\* holds the full text
C18_StrategyByLength ==
    prompts # <<>> =>
        LET text == transcript_result.text
            map_reduce == prompts[1].kind = "map"
        IN  /\ map_reduce <=> Len(text) > 2 * args.chunk_chars
            /\ ~map_reduce =>
                  /\ prompts = <<Prompt("direct", text)>>
                  /\ calls = AiCall
                  /\ chunks = <<>>

\* a text of exactly twice chunk_chars was summarized directly
C18_Witness ==
    /\ pc = "summarized"
    /\ Len(transcript_result.text) = 2 * args.chunk_chars
    /\ prompts = <<Prompt("direct", transcript_result.text)>>

\* the offset of window k, and the positions of the text it holds
OffsetOf(k) == (k - 1) * (args.chunk_chars - args.chunk_overlap)
PositionsOf(k) == (OffsetOf(k) + 1)..(OffsetOf(k) + Len(chunks[k]))
Shared(k) == Cardinality(PositionsOf(k) \cap PositionsOf(k + 1))

\* the windows start at 0, s, 2s, ... below the length of the text, none is
\* longer than chunk_chars, and together they hold every character
WindowsCover ==
    LET text == transcript_result.text
    IN  /\ \A k \in 1..Len(chunks) :
              /\ OffsetOf(k) < Len(text)
              /\ Len(chunks[k]) <= args.chunk_chars
              /\ chunks[k] # <<>>
              /\ \A p \in PositionsOf(k) :
                    p <= Len(text) /\ chunks[k][p - OffsetOf(k)] = text[p]
        /\ OffsetOf(Len(chunks) + 1) >= Len(text)
        /\ \A p \in 1..Len(text) : \E k \in 1..Len(chunks) : p \in PositionsOf(k)
        /\ \A k \in 1..Len(chunks) :
              Len(chunks[k]) < args.chunk_chars =>
                  OffsetOf(k) + Len(chunks[k]) = Len(text)

\* C19 as stated: for every text and 0 <= overlap < chunk_chars the windows
\* of _chunk_text start at 0, s, 2s, ..., are at most chunk_chars long, cover
\* the text, and every two consecutive windows share exactly overlap
\* characters
C19_ExactOverlap ==
    pc = "chunked" =>
        /\ WindowsCover
        /\ \A k \in 1..(Len(chunks) - 1) : Shared(k) = args.chunk_overlap

\* C19 (amended): the windows start at 0, s, 2s, ..., are at most chunk_chars
\* long and cover the text; a window of chunk_chars characters shares exactly
\* overlap characters with the next one, and a window cut short by the end
\* of the text holds the whole of every later window, fewer than overlap
\* characters
C19_OverlapOfFullWindows ==
    pc = "chunked" =>
        /\ WindowsCover
        /\ \A k \in 1..(Len(chunks) - 1) :
              IF Len(chunks[k]) = args.chunk_chars
              THEN Shared(k) = args.chunk_overlap
              ELSE /\ Shared(k) = Len(chunks[k + 1])
                   /\ Shared(k) < args.chunk_overlap

\* a window cut short by the end of the text is followed by another window
C19_Witness ==
    /\ pc = "chunked"
    /\ \E k \in 1..(Len(chunks) - 1) :
          /\ Len(chunks[k]) < args.chunk_chars
          /\ Shared(k) > 0
    /\ \E k \in 1..(Len(chunks) - 1) :
          /\ Len(chunks[k]) = args.chunk_chars
          /\ Shared(k) = args.chunk_overlap
          /\ Shared(k) > 0

\* kept holds the first elements of given, in their order: all of them, or
\* the first most when there are more
FirstOf(kept, given, most) ==
    /\ Len(kept) <= most
    /\ Len(kept) <= Len(given)
    /\ \A k \in 1..Len(kept) : kept[k] = given[k]
    /\ Len(kept) = most \/ Len(kept) = Len(given)

\* C20: a SummaryResult built from an AI response holds at most 10
\* highlights, 5 new_insights and 3 notable_quotes, each the prefix of the
\* response's array in its order (of an empty array when the key is missing)
C20_ArraysTruncated ==
    (pc = "write_summary_json" /\ response.kind = "json") =>
        /\ pending.ok
        /\ FirstOf(pending.data.highlights,
                   Get(response, "highlights", <<>>), 10)
        /\ FirstOf(pending.data.new_insights,
                   Get(response, "new_insights", <<>>), 5)
        /\ FirstOf(pending.data.notable_quotes,
                   Get(response, "notable_quotes", <<>>), 3)

\* each of the three arrays of the answer was longer than what is kept
C20_Witness ==
    /\ pc = "write_summary_json"
    /\ ArrayKeys \subseteq DOMAIN response
    /\ Len(response.highlights) > Len(pending.data.highlights)
    /\ Len(response.new_insights) > Len(pending.data.new_insights)
    /\ Len(response.notable_quotes) > Len(pending.data.notable_quotes)
    /\ pending.data.notable_quotes = <<1, 2, 3>>

\* the IDs with a row in the index file
Indexed == {index_file[k].video_id : k \in 1..Len(index_file)}

\* what a dry run printed agrees with the list and the index file
DryReportRight ==
    /\ report.printed
    /\ Len(report.preview) <= 10
    /\ Len(report.preview) = Len(videos) \/ Len(report.preview) = 10
    /\ Len(report.preview) <= Len(videos)
    /\ \A k \in 1..Len(report.preview) :
          /\ report.preview[k].video_id = videos[k].id
          /\ report.preview[k].status \in {"EXISTS", "NEW"}
          /\ report.preview[k].status = "EXISTS" <=>
                (videos[k].id \in Indexed /\ ~args.force)
    /\ report.existing_count =
          Cardinality({k \in 1..Len(videos) :
                          videos[k].id \in Indexed /\ ~args.force})
    /\ report.new_count + report.existing_count = Len(videos)

\* C21: a dry run leaves the index file and every transcript and summary
\* file unchanged and makes no transcript-source or AI call; an item is
\* EXISTS exactly when its ID is in the loaded index and force is off, NEW
\* otherwise; only the first 10 items are previewed, and the new and
\* existing counts over the whole list sum to the number of items
C21_DryRunNoEffect ==
    [][ (pc # "dry_done" /\ pc' = "dry_done") =>
           /\ disk' = disk
           /\ calls' = <<>>
           /\ requests' = requests
           /\ prompts' = <<>>
           /\ net_acq' = net_acq
           /\ ai_gen' = ai_gen
           /\ DryReportRight'
      ]_vars

\* a dry run without force over more than 10 items, some new, some existing,
\* on an installation that holds files
C21_Witness ==
    /\ pc = "dry_done"
    /\ ~args.force
    /\ report.more > 0
    /\ report.new_count > 0
    /\ report.existing_count > 0
    /\ transcript_files["v1"].json.exists

\* C22: an interruption that arrives while a child process is running is
\* caught at the top level, the child is terminated, and the program ends
\* with exit code 130 and no uncaught exception, in both subprocess steps of
\* process_channel and in yt_summary run directly
C22_InterruptCaught ==
    (exit.exited /\ exit.interrupted) =>
        /\ ~exit.traceback
        /\ exit.code = 130
        /\ child \in {"terminated", "killed"}

\* C23: _load_index never fails on an existing index file: a row with a
\* missing, empty or non-numeric field is skipped or loaded with the field
\* defaulted, and the other rows are still loaded
C23_LoadNeverFails ==
    pc \in {"constructed", "exited"} =>
        /\ pc = "constructed"
        /\ \A k \in 1..Len(index_file) :
              index_file[k] = GoodRow("v2") => HasKey(index_data, "v2")

\* the latest fetch_transcript call for v failed in every source, the API
\* source with one of the three reasons, and the item was marked for it
FailedFor(v) ==
    /\ last_fetch[v].cur.state = "failed"
    /\ last_fetch[v].cur.reason
          \in {"TranscriptsDisabled", "NoTranscriptFound", "IpBlocked"}
    /\ HasKey(index_data, v)
    /\ Lookup(index_data, v).summary_status = "TRANSCRIPT_UNAVAILABLE"

\* C24: when every transcript source fails for an item, what is reported to
\* the caller and recorded for the item tells the reason: two items that
\* failed for different reasons among transcripts disabled, no transcript
\* found and IP blocked have different recorded failures
C24_ReasonsDistinguished ==
    \A v, w \in Ids :
        (/\ FailedFor(v)
         /\ FailedFor(w)
         /\ last_fetch[v].cur.reason # last_fetch[w].cur.reason)
        => Lookup(index_data, v).error # Lookup(index_data, w).error

\* C25: fetch_transcript answers from the cache, without a call to a
\* source, exactly when force is off and both transcript files of the ID
\* exist; with one file only, or with force, it queries the sources, and when
\* one succeeds both files are rewritten with the new result
C25_CacheUsedIff ==
    [][ /\ (pc = "fetch" /\ pc' # "crashed") =>
              ((pc' = "fetched" /\ calls' = <<>>) <=>
                  (/\ transcript_files[video_id].json.exists
                   /\ transcript_files[video_id].txt.exists
                   /\ ~args.force))
        /\ (pc = "fetch" /\ pc' \notin {"crashed", "fetched"}) =>
              calls' # <<>>
        /\ (pc = "write_txt" /\ pc' = "fetched") =>
              /\ transcript_result'.ok
              /\ transcript_files'[video_id] =
                    [json |-> File(transcript_result'.segments),
                     txt |-> File(transcript_result'.text)]
      ]_vars

\* with only the segment file on disk and force off a source was queried and
\* succeeded, and both files hold its result
C25_Witness ==
    /\ pc = "fetched"
    /\ transcript_result.ok
    /\ ~ever_forced
    /\ net_acq[video_id] = 2
    /\ last_fetch[video_id].prev.state = "cut"
    /\ transcript_files[video_id].txt = File(transcript_result.text)

\* C26: generate_summary makes no AI call and returns the stored record
\* exactly when force is off and both summary files of the ID exist;
\* otherwise it makes AI calls and, when they succeed, writes both files
\* before it returns
C26_SummaryCacheIff ==
    [][ /\ (pc = "summarize" /\ pc' # "crashed") =>
              LET files == summary_files[video_id]
                  cached == files.json.exists /\ files.md.exists /\ ~args.force
              IN  /\ cached <=> prompts' = <<>>
                  /\ cached =>
                        /\ pc' = "summarized"
                        /\ summary'.ok
                        /\ summary'.data = files.json.data
        /\ (pc = "write_summary_md" /\ pc' = "summarized") =>
              /\ summary'.ok
              /\ prompts # <<>>
              /\ summary_files'[video_id] =
                    [json |-> File(summary'.data),
                     md |-> File(FormatMarkdown(summary'.data))]
      ]_vars

\* C27: whenever fetch_transcript returns a successful result obtained from
\* the API or from yt-dlp, both transcript files of the ID exist at that
\* moment, the one holding exactly the returned segments and the other
\* exactly the returned text
C27_FilesHoldResult ==
    (/\ pc = "fetched"
     /\ transcript_result.ok
     /\ ~last_fetch[video_id].cur.quiet)
    => LET files == transcript_files[video_id]
       IN  /\ files.json.exists /\ files.json.whole
           /\ files.txt.exists /\ files.txt.whole
           /\ files.json.data = transcript_result.segments
           /\ files.txt.data = transcript_result.text

\* a source returned a transcript with a text, over older files
C27_Witness ==
    /\ pc = "fetched"
    /\ transcript_result.ok
    /\ ~last_fetch[video_id].cur.quiet
    /\ transcript_result.text # <<>>
    /\ net_acq[video_id] = 2
    /\ transcript_files[video_id].txt.data = transcript_result.text

\* C28: when a yt-dlp subprocess (listing or download) runs into its
\* timeout, the yt-dlp source fails and nothing else does: no file is
\* touched, run's handler is not entered, and fetch_transcript goes on to the
\* API when yt-dlp was the first source, and returns None when yt-dlp was
\* the fallback, after which no source remains; a call that started with
\* such a yt-dlp failure does not return before the API was tried
C28_TimeoutFailsToolOnly ==
    [][ /\ (/\ Len(tried') = Len(tried) + 1
            /\ tried'[Len(tried')].source = "ytdlp"
            /\ TimedOut(tool_env', args.languages)) =>
               /\ ~tried'[Len(tried')].ok
               /\ UNCHANGED <<disk, faulted, faults>>
               /\ IF tried = <<>>
                  THEN pc' = "api"
                  ELSE pc' = "fetched" /\ transcript_result' = NoResult
        /\ (/\ pc # "fetched" /\ pc' = "fetched"
            /\ tried' # <<>>
            /\ tried'[1].source = "ytdlp"
            /\ TimedOut(tool_env', args.languages)) =>
               /\ Len(tried') >= 2
               /\ tried'[2].source = "api"
      ]_vars

\* the download timed out for the first source, and the API then delivered
C28_Witness ==
    /\ pc = "fetched"
    /\ ~tool_env.listing.timeout
    /\ tool_env.download = "timeout"
    /\ tried = <<Attempt("ytdlp", FALSE), Attempt("api", TRUE)>>
    /\ transcript_result.ok

\* C29: with --clean-tags, two sources asked for the same captions return
\* the same texts: each returned text is the bracket-stripped form of a
\* caption, and a caption that becomes empty is kept by both or dropped by
\* both
C29_SameTransform ==
    (pc = "fetched" /\ Len(tried) = 2 /\ args.clean_tags) =>
        LET h == last_fetch[video_id]
        IN  /\ \A k \in 1..Len(h.cur.segments) :
                  \E j \in 1..Len(Snippets) :
                      h.cur.segments[k].text = CleanTags(Snippets[j])
            /\ TextParts(h.prev.segments) = TextParts(h.cur.segments)

\* C30: when generate_summary returns a summary it has generated, directly
\* or by map-reduce, the token estimate of that summary is half the length,
\* rounded down, of the transcript text it was given, and the index entry of
\* the video takes the estimate of the summary
C30_EstimateHalfOfText ==
    /\ (pc = "summarized" /\ summary.ok /\ prompts # <<>>) =>
          summary.data.tokens_estimate = Len(transcript_result.text) \div 2
    /\ (pc = "save" /\ summary.ok /\ prompts # <<>>) =>
          Lookup(index_data, video_id).tokens_estimate
             = summary.data.tokens_estimate

\* the IDs of the input list
InputIds == {videos[k].id : k \in 1..Len(videos)}

UniqueIds(records) ==
    \A j, k \in 1..Len(records) :
        records[j].video_id = records[k].video_id => j = k

\* _save_index has returned in this step
SaveReturned == pc \in {"save", "save_in_except"} /\ pc' \in {"item", "done"}

\* the step neither starts a process nor ends one
WithinRun == runs' = runs /\ pc' \notin {"crashed", "aborted"}

\* C31: the index has one record per ID, also when the ID is in the input
\* several times; while a run goes on no ID leaves the index and the record
\* of an ID that is not in the input does not change; every file that
\* _save_index has written has one row per ID of the index, the row of its
\* record
C31_RecordsKept ==
    [][ /\ UniqueIds(index_data')
        /\ WithinRun =>
              \A id \in Ids :
                  HasKey(index_data, id) =>
                      /\ HasKey(index_data', id)
                      /\ id \notin InputIds =>
                            Lookup(index_data', id) = Lookup(index_data, id)
        /\ SaveReturned =>
              /\ UniqueIds(index_file')
              /\ Len(index_file') = Len(index_data')
              /\ \A k \in 1..Len(index_data') :
                    \E j \in 1..Len(index_file') :
                        index_file'[j] = RowOf(index_data'[k])
      ]_vars

\* v1 is in the input twice and v2 is not: the run is over, and the file has
\* the record of v2 as it was left, and one record of v1
C31_Witness ==
    /\ pc = "done"
    /\ Len(videos) = 2
    /\ Len(index_file) = 2
    /\ RowOf(LeftOther) = index_file[1]
    /\ index_file[2].video_id = "v1"
    /\ index_file[2].summary_status = "SUMMARY_FAILED"

\* _load_index has run on the file _save_index wrote
Reloaded == pc = "saved" /\ pc' # "saved"

NoneAsEmpty(info) ==
    [info EXCEPT !.summary_status = IF @ = None THEN "" ELSE @,
                 !.error = IF @ = None THEN "" ELSE @]

Newlines(text) == Cardinality({k \in 1..Len(text) : text[k] = "\n"})

\* C33: in a map-reduce summarization the map calls are those of the
\* windows, one each and in window order, and they are followed by the final
\* call, whose input is the outputs of all windows joined by newlines: one
\* output, and so one line, per window
C33_OneOutputPerWindow ==
    (prompts # <<>> /\ prompts[1].kind = "map") =>
        /\ chunks = ChunkText(transcript_result.text)
        /\ Len(prompts) = Len(chunks) + 1
        /\ \A k \in 1..Len(chunks) : prompts[k] = Prompt("map", chunks[k])
        /\ prompts[Len(prompts)].kind = "reduced"
        /\ Newlines(prompts[Len(prompts)].content) + 1 = Len(chunks)

\* C34: _chunk_text returns, whatever the text and the pair (chunk_chars,
\* chunk_overlap): the loop reaches start >= len(text)
C34_ChunkTextTerminates == <>(pc = "chunked")

\* the languages of the tracks listed
ListedCodes == {transcript_list[k].lang : k \in 1..Len(transcript_list)}

\* the language the claim has yt-dlp download, None for a failure
ExactPick(langs) ==
    LET hits == {k \in 1..Len(langs) : langs[k] \in ListedCodes}
    IN  IF hits # {}
        THEN langs[CHOOSE k \in hits : \A j \in hits : k <= j]
        ELSE IF "ja" \in ListedCodes THEN "ja"
        ELSE IF "en" \in ListedCodes THEN "en"
        ELSE None

\* C35: yt-dlp downloads the first preferred language that is the language
\* of a listed track, else Japanese, else English when such a track is
\* listed, and fails when neither is
C35_ExactLanguageMatch ==
    pc = "picked" =>
        (IF transcript_result.ok THEN transcript_result.lang ELSE None)
           = ExactPick(args.languages)

\* the outbound requests among the calls recorded
Outbound ==
    {"api.list", "api.fetch", "subprocess.list", "subprocess.download",
     "ai"}

\* C36: every outbound request (listing of the tracks, fetch of a track,
\* yt-dlp invocation, AI request) comes right after a _rate_limit call of
\* its own
C36_RateLimitBeforeEach ==
    \A k \in 1..Len(calls) :
        calls[k] \in Outbound => k > 1 /\ calls[k - 1] = "rate_limit"

\* the four artifact files of an ID exist
ArtifactsExist(id) ==
    /\ transcript_files[id].json.exists /\ transcript_files[id].txt.exists
    /\ summary_files[id].json.exists /\ summary_files[id].md.exists

\* C37: a record with status COMPLETED, in memory or in the index file, has
\* an empty error; and when run sets the record of the item to COMPLETED the
\* two transcript files and the two summary files of the item exist
C37_CompletedHasArtifacts ==
    [][ /\ \A k \in 1..Len(index_data') :
              index_data'[k].summary_status = "COMPLETED" =>
                  index_data'[k].error = ""
        /\ \A k \in 1..Len(index_file') :
              index_file'[k].summary_status = "COMPLETED" =>
                  index_file'[k].error = ""
        /\ (/\ pc = "summarized" /\ pc' = "save"
            /\ Lookup(index_data', video_id).summary_status = "COMPLETED") =>
               /\ ArtifactsExist(video_id)
               /\ UNCHANGED disk
      ]_vars

\* a record that held the error of a failed summary was set to COMPLETED
\* after a forced start generated the summary
C37_Witness ==
    /\ pc = "save"
    /\ loaded[video_id] = "SUMMARY_FAILED"
    /\ Lookup(index_data, video_id).summary_status = "COMPLETED"
    /\ Lookup(index_data, video_id).error = ""
    /\ ai_gen[video_id] = 1
    /\ ArtifactsExist(video_id)

\* the attempts of the current fetch_transcript call made with yt-dlp
YtdlpAttempts == {k \in 1..Len(tried) : tried[k].source = "ytdlp"}

\* C38: within one fetch_transcript call yt-dlp is invoked at most once,
\* whatever use_ytdlp is and however the API fails
C38_YtdlpAtMostOnce ==
    Cardinality(YtdlpAttempts) <= 1

\* the positions of the loop body of run, handler included
InItem ==
    pc \in {"item", "fetch", "api", "fallback", "write_json", "write_txt",
            "fetched", "summarize", "write_summary_json",
            "write_summary_md", "summarized", "save", "except",
            "save_in_except"}

\* the fields of a record that the input does not supply
Outcome(info) ==
    <<info.language, info.transcript_chars, info.tokens_estimate,
      info.summary_status, info.error>>

\* C39: a step of the loop body of run changes no record but the one of
\* the current item and removes none; the start of the item changes only
\* title, url and published_at of its record, fetch_transcript changes no
\* record, and the step that sets TRANSCRIPT_UNAVAILABLE changes only
\* summary_status and error, so that language, transcript_chars and
\* tokens_estimate are the ones the record had before the item
C39_OnlyItemRecord ==
    [][ (InItem /\ WithinRun) =>
          /\ \A id \in Ids \ {video_id} :
                /\ HasKey(index_data', id) <=> HasKey(index_data, id)
                /\ HasKey(index_data, id) =>
                      Lookup(index_data', id) = Lookup(index_data, id)
          /\ HasKey(index_data, video_id) => HasKey(index_data', video_id)
          /\ (pc = "item" /\ HasKey(index_data, video_id)) =>
                Outcome(Lookup(index_data', video_id))
                   = Outcome(Lookup(index_data, video_id))
          /\ InFetch => index_data' = index_data
          /\ (/\ pc = "fetched" /\ pc' = "save"
              /\ Lookup(index_data', video_id).summary_status
                    = "TRANSCRIPT_UNAVAILABLE") =>
                Lookup(index_data', video_id) =
                   [Lookup(index_data, video_id) EXCEPT
                       !.summary_status = "TRANSCRIPT_UNAVAILABLE",
                       !.error = "Failed to fetch transcript"]
      ]_vars

\* the record of v1 was left COMPLETED with its language and counts; a
\* forced start got no transcript, and the record is TRANSCRIPT_UNAVAILABLE
\* with the language and counts it had, next to the record of v2 as left
C39_Witness ==
    /\ pc = "save"
    /\ video_id = "v1"
    /\ loaded["v1"] = "COMPLETED"
    /\ Lookup(index_data, "v1").summary_status = "TRANSCRIPT_UNAVAILABLE"
    /\ Lookup(index_data, "v1").language = "ja"
    /\ Lookup(index_data, "v1").transcript_chars = Len(LeftText)
    /\ Lookup(index_data, "v1").tokens_estimate = LeftSummary.tokens_estimate
    /\ HasKey(index_data, "v2")
    /\ Lookup(index_data, "v2") = LeftOther

\* the summarization step was started
Step2Started == \E k \in 1..Len(calls) : calls[k] = "yt_summary.py"

\* the listing step ended with a status that is not 0, or ended with 0 or
\* was skipped and the CSV is not there
ListingFailed ==
    /\ completed # <<>>
    /\ completed[1].cmd = "channel_index.py"
    /\ completed[1].returncode # 0

CsvMissing ==
    /\ ~csv_file.exists
    /\ \/ args.use_existing_csv
       \/ completed # <<>> /\ completed[1] = Ended("channel_index.py", 0)

\* the summarization step ended
Step2Ended ==
    /\ completed # <<>>
    /\ completed[Len(completed)].cmd = "yt_summary.py"

\* C40, as stated: yt_summary is started only after channel_index exited
\* with 0 and with the CSV in place; when the listing fails or the CSV is
\* missing the program exits with 1 and yt_summary is not started; an exit
\* code of yt_summary that is not 0 is the exit code of the program
C40_SummaryAfterListing ==
    /\ Step2Started =>
          /\ completed # <<>>
          /\ completed[1] = Ended("channel_index.py", 0)
          /\ csv_file.exists
    /\ (exit.exited /\ (ListingFailed \/ CsvMissing)) =>
          /\ exit.code = 1
          /\ ~Step2Started
    /\ (exit.exited /\ Step2Ended /\ completed[Len(completed)].returncode > 0) =>
          exit.code = completed[Len(completed)].returncode

\* C40, amended: yt_summary is started only with the CSV in place, and
\* either after channel_index exited with 0 or, with --use-existing-csv,
\* with no listing step at all; when the listing fails or the CSV is
\* missing the program exits with 1 and yt_summary is not started; an exit
\* code of yt_summary that is not 0 is the exit code of the program, and
\* when a signal N ended yt_summary the exit code is 256 - N
C40_SummaryAfterListingOrExisting ==
    /\ Step2Started =>
          /\ csv_file.exists
          /\ IF args.use_existing_csv
             THEN \A k \in 1..Len(calls) : calls[k] # "channel_index.py"
             ELSE /\ completed # <<>>
                  /\ completed[1] = Ended("channel_index.py", 0)
    /\ (exit.exited /\ (ListingFailed \/ CsvMissing)) =>
          /\ exit.code = 1
          /\ ~Step2Started
    /\ (exit.exited /\ Step2Ended) =>
          LET returncode == completed[Len(completed)].returncode
          IN  exit.code = IF returncode >= 0 THEN returncode
                          ELSE 256 + returncode

\* the listing returned 0 and saved the CSV, yt_summary was started on it
\* and ended with 2, and the program ended with 2
C40_Witness ==
    /\ pc = "exited"
    /\ ~args.use_existing_csv
    /\ csv_file = File(videos)
    /\ calls = <<"channel_index.py", "yt_summary.py">>
    /\ completed = <<Ended("channel_index.py", 0), Ended("yt_summary.py", 2)>>
    /\ exit = Exit(2)

====
